---------------------------- MODULE Spec2Model ----------------------------
(***************************************************************************)
(* State-machine model of the fog-node scheduling engine:                  *)
(*   Simulation.run (src/simulation.py), FogNode / FogTopology             *)
(*   (src/topology.py), Request (src/models.py) and the counters of        *)
(*   MetricsCollector (src/metrics.py).                                    *)
(*                                                                         *)
(* Numbers.  The program computes with floats.  Here demands, sizes and    *)
(* times are integers (one unit of demand is half a CPU unit, one unit of  *)
(* time is one second) and every quotient the program forms (predicted     *)
(* finish time, urgency, waiting term, J1..J3, lambda, alpha/beta/gamma)   *)
(* is an exact rational <<numerator, denominator>>.                        *)
(***************************************************************************)
EXTENDS Integers, Sequences, FiniteSets, TLC

(***************************************************************************)
(* Bounds of the model.                                                    *)
(***************************************************************************)
\* Total number of requests the generator produces over a run.
MaxRequests == 2
\* The horizon config.sim_time, in seconds.
SimTime == 4

\* Python's None (Optional fields of Request, FogNode and SimulationConfig).
None == -1

(***************************************************************************)
(* Exact rationals <<n, d>> with d > 0, kept in lowest terms.              *)
(***************************************************************************)
Abs(x) == IF x < 0 THEN -x ELSE x

RECURSIVE GCD(_, _)
GCD(a, b) == IF b = 0 THEN a ELSE GCD(b, a % b)

Rat(n, d) == LET g == GCD(Abs(n), d) IN <<n \div g, d \div g>>
RInt(i) == <<i, 1>>
RAdd(x, y) == Rat(x[1] * y[2] + y[1] * x[2], x[2] * y[2])
RSub(x, y) == Rat(x[1] * y[2] - y[1] * x[2], x[2] * y[2])
RMul(x, y) == Rat(x[1] * y[1], x[2] * y[2])
\* x / y for y > 0
RDiv(x, y) == Rat(x[1] * y[2], x[2] * y[1])
RLt(x, y) == x[1] * y[2] < y[1] * x[2]
RLe(x, y) == x[1] * y[2] <= y[1] * x[2]
RMax(x, y) == IF RLt(x, y) THEN y ELSE x
RMin(x, y) == IF RLt(y, x) THEN y ELSE x
\* max(1e-9, x): a positive rational whose denominator is below 10^9 is
\* larger than 1e-9.
AtLeastTiny(x) == IF x[1] >= 1 THEN x ELSE <<1, 1000000000>>

(***************************************************************************)
(* Sequence helpers (list / deque operations of the program).              *)
(***************************************************************************)
\* The positions 1..Len(s) as a set.
Range(s) == {s[i] : i \in 1..Len(s)}

\* deque.remove(x): drop the first occurrence of x.
RECURSIVE Remove(_, _)
Remove(s, x) ==
    IF s = <<>> THEN <<>>
    ELSE IF Head(s) = x THEN Tail(s)
    ELSE <<Head(s)>> \o Remove(Tail(s), x)

\* deque.pop(): drop the last element.
PopRight(s) == SubSeq(s, 1, Len(s) - 1)

RECURSIVE SumSeq(_)
SumSeq(s) == IF s = <<>> THEN 0 ELSE Head(s) + SumSeq(Tail(s))

(***************************************************************************)
(* Configuration (SimulationConfig).  The scheduler, the queue bound and   *)
(* the link capacity are drawn in Init; the remaining fields are fixed.    *)
(***************************************************************************)
Schedulers == {"FIFO", "EMERGENCY_FIRST", "STATIC_PRIORITY", "SLA-DWP-Fog"}

Configs ==
    [ scheduler        : Schedulers,
      sim_time         : {SimTime},
      time_step        : {1, 2},
      fog_cpu_capacity : {2},
      fog_link_capacity : {None, 3},
      fog_max_queue_length : {None, 1},
      sla_window_TW    : {2},
      sla_J1_max       : {<<1, 10>>},
      sla_J2_max_s     : {<<1, 1>>},
      sla_J3_max       : {<<2, 1>>},
      sla_eta1         : {<<1, 2>>},
      sla_eta2         : {<<1, 2>>},
      sla_eta3         : {<<1, 2>>},
      sla_eps          : {<<1, 4>>},
      num_fog_nodes_x  : {2},
      num_fog_nodes_y  : {1},
      max_requests_per_step : {MaxRequests} ]

(***************************************************************************)
(* Topology: build_grid_topology with num_fog_nodes_x = 2,                 *)
(* num_fog_nodes_y = 1, city_width = 6, city_height = 2: step_x = 2 and    *)
(* step_y = 1, so the nodes sit at (2,1) and (4,1).                        *)
(***************************************************************************)
Nodes == 1..2

NodePosition(n) == <<2 * n, 1>>

\* Squared Euclidean distance; sqrt is monotone, so comparing squares
\* orders distances as the program's sqrt(dx*dx + dy*dy) does.
Dist2(p, q) == (p[1] - q[1]) * (p[1] - q[1]) + (p[2] - q[2]) * (p[2] - q[2])

\* FogTopology.get_nearest_fog: scan the nodes in list order, keep the first
\* node with a strictly smaller distance.
\* The scan with <= in place of <: the last node at the minimal distance.
RECURSIVE NearestFrom_last_on_tie(_, _, _)
NearestFrom_last_on_tie(n, best, position) ==
    IF n > Cardinality(Nodes) THEN best
    ELSE IF best = None
            \/ Dist2(NodePosition(n), position) <= Dist2(NodePosition(best), position)
         THEN NearestFrom_last_on_tie(n + 1, n, position)
         ELSE NearestFrom_last_on_tie(n + 1, best, position)

RECURSIVE NearestFrom(_, _, _)
NearestFrom(n, best, position) ==
    IF n > Cardinality(Nodes) THEN best
    ELSE IF best = None
            \/ Dist2(NodePosition(n), position) < Dist2(NodePosition(best), position)
         THEN NearestFrom(n + 1, n, position)
         ELSE NearestFrom(n + 1, best, position)

get_nearest_fog(position) == NearestFrom(1, None, position)

(***************************************************************************)
(* Requests.  The generator is external; it hands the engine requests of   *)
(* a few kinds: (processing_demand, data_size, is_emergency,               *)
(* priority_class, relative_deadline_s).  As in RequestGenerator,          *)
(* is_emergency holds exactly for priority class 3 and every demand is     *)
(* positive.                                                               *)
(***************************************************************************)
EmergencyKind ==
    [processing_demand |-> 2, data_size |-> 2, is_emergency |-> TRUE,
     priority_class |-> 3, relative_deadline_s |-> 2]

SafetyKind ==
    [processing_demand |-> 1, data_size |-> 1, is_emergency |-> FALSE,
     priority_class |-> 2, relative_deadline_s |-> 3]

NormalKind ==
    [processing_demand |-> 5, data_size |-> 1, is_emergency |-> FALSE,
     priority_class |-> 1, relative_deadline_s |-> 6]

\* The (kind, source_position) pairs the generator may draw.  <<1, 1>> is
\* nearest to node 1, <<5, 0>> to node 2, and <<3, 1>> is at the same
\* distance from both.
Arrivals ==
    { <<EmergencyKind, <<1, 1>>>>,
      <<SafetyKind,    <<3, 1>>>>,
      <<NormalKind,    <<1, 1>>>>,
      <<NormalKind,    <<5, 0>>>> }

\* Request(...) as RequestGenerator.generate_requests builds it.
NewRequest(kind, position, current_time) ==
    [ source_position     |-> position,
      arrival_time        |-> current_time,
      processing_demand   |-> kind.processing_demand,
      remaining_demand    |-> kind.processing_demand,
      data_size           |-> kind.data_size,
      is_emergency        |-> kind.is_emergency,
      priority_class      |-> kind.priority_class,
      relative_deadline_s |-> kind.relative_deadline_s,
      absolute_deadline   |-> current_time + kind.relative_deadline_s,
      assigned_fog_id     |-> None,
      start_time          |-> None,
      completion_time     |-> None ]

\* Request.latency, for a completed request.
latency(req) == req.completion_time - req.arrival_time

\* Request.deadline_met, for a completed request.
deadline_met(req) == req.completion_time <= req.absolute_deadline

\* The batches generate_requests may return when k more requests fit
\* under MaxRequests.
Batches(k) ==
    UNION { [1..n -> Arrivals] : n \in 0..k }

\* RequestGenerator.generate_requests: no request when max_requests_per_step
\* is not positive, otherwise at most max_requests_per_step of them.
generate_requests(cfg, k) ==
    IF cfg.max_requests_per_step <= 0 THEN {<<>>}
    ELSE Batches(IF cfg.max_requests_per_step < k
                 THEN cfg.max_requests_per_step ELSE k)

(***************************************************************************)
(* FogNode.__init__                                                        *)
(***************************************************************************)
NewFogNode(cfg) ==
    [ cpu_capacity     |-> cfg.fog_cpu_capacity,
      link_capacity    |-> cfg.fog_link_capacity,
      max_queue_length |-> cfg.fog_max_queue_length,
      scheduler        |-> cfg.scheduler,
      queue            |-> <<>>,
      emergency_queue  |-> <<>>,
      normal_queue     |-> <<>>,
      priority_queue_3 |-> <<>>,
      priority_queue_2 |-> <<>>,
      priority_queue_1 |-> <<>>,
      dynamic_queue_3  |-> <<>>,
      dynamic_queue_2  |-> <<>>,
      dynamic_queue_1  |-> <<>>,
      alpha            |-> <<1, 3>>,
      beta             |-> <<1, 3>>,
      gamma            |-> <<1, 3>>,
      lambda_1         |-> <<0, 1>>,
      lambda_2         |-> <<0, 1>>,
      lambda_3         |-> <<0, 1>>,
      completed_history |-> <<>>,
      last_window_update |-> 0,
      current_request  |-> None,
      current_link_load |-> 0,
      total_rejected_due_to_deadline |-> 0 ]

\* MetricsCollector.__init__ (the counters the engine's accounting uses).
NewMetrics ==
    [ total_generated |-> 0,
      total_completed |-> 0,
      total_dropped   |-> 0,
      total_admitted  |-> 0,
      total_rejected  |-> 0,
      dropped_by_reason |->
          [why \in {"link_capacity", "queue_full", "admission_rejected"} |-> 0],
      total_rejected_due_to_deadline |-> 0,
      avg_queue_lengths |-> <<>>,
      max_queue_lengths |-> <<>> ]

\* MetricsCollector.record_dropped
record_dropped(m, why) ==
    [m EXCEPT !.total_dropped = @ + 1, !.dropped_by_reason[why] = @ + 1]

\* record_rejected that files the reason but forgets the counter.
record_rejected_uncounted(m, why) ==
    [m EXCEPT !.dropped_by_reason[why] = @ + 1]

\* MetricsCollector.record_rejected
record_rejected(m, why) ==
    [m EXCEPT !.total_rejected = @ + 1, !.dropped_by_reason[why] = @ + 1]

\* MetricsCollector.record_generated
record_generated(m, count) == [m EXCEPT !.total_generated = @ + count]

\* MetricsCollector.record_completed
record_completed(m, done) == [m EXCEPT !.total_completed = @ + Len(done)]


(***************************************************************************)
(* FogNode: queue length, link check, priority score, admission control.   *)
(***************************************************************************)
IsSla(node) == node.scheduler \in {"DYNAMIC_PRIORITY", "SLA-DWP-Fog"}

\* The per-class queue a request of class c goes to (the else branch of the
\* program takes every class other than 3 and 2).
DynField(c) ==
    IF c = 3 THEN "dynamic_queue_3"
    ELSE IF c = 2 THEN "dynamic_queue_2" ELSE "dynamic_queue_1"

PrioField(c) ==
    IF c = 3 THEN "priority_queue_3"
    ELSE IF c = 2 THEN "priority_queue_2" ELSE "priority_queue_1"

\* Routing to the emergency queue by priority class instead of the flag.
EmergencyField_by_class(request) ==
    IF request.priority_class >= 2 THEN "emergency_queue" ELSE "normal_queue"

\* The queue of the EMERGENCY_FIRST policy a request goes to.
EmergencyField(request) ==
    IF request.is_emergency THEN "emergency_queue" ELSE "normal_queue"

\* _get_total_queue_length that leaves out the in-service request.
get_total_queue_length_without_current(node) ==
    IF IsSla(node)
    THEN Len(node.dynamic_queue_3) + Len(node.dynamic_queue_2)
         + Len(node.dynamic_queue_1)
    ELSE IF node.scheduler = "STATIC_PRIORITY"
    THEN Len(node.priority_queue_3) + Len(node.priority_queue_2)
         + Len(node.priority_queue_1)
    ELSE IF node.scheduler = "EMERGENCY_FIRST"
    THEN Len(node.emergency_queue) + Len(node.normal_queue)
    ELSE Len(node.queue)

\* FogNode._get_total_queue_length
get_total_queue_length(node) ==
    IF IsSla(node)
    THEN Len(node.dynamic_queue_3) + Len(node.dynamic_queue_2)
         + Len(node.dynamic_queue_1)
         + (IF node.current_request # None THEN 1 ELSE 0)
    ELSE IF node.scheduler = "STATIC_PRIORITY"
    THEN Len(node.priority_queue_3) + Len(node.priority_queue_2)
         + Len(node.priority_queue_1)
    ELSE IF node.scheduler = "EMERGENCY_FIRST"
    THEN Len(node.emergency_queue) + Len(node.normal_queue)
    ELSE Len(node.queue)

\* FogNode.queue_length
queue_length(node) == get_total_queue_length(node)

\* max(lengths) of a non-empty list.
MaxOf(lengths) ==
    CHOOSE m \in Range(lengths) : \A l \in Range(lengths) : l <= m

\* MetricsCollector.record_queue_lengths
record_queue_lengths(m, fog_nodes) ==
    IF fog_nodes = <<>> THEN m
    ELSE LET lengths == [n \in DOMAIN fog_nodes |-> queue_length(fog_nodes[n])]
         IN  [m EXCEPT !.avg_queue_lengths =
                           Append(@, Rat(SumSeq(lengths), Len(lengths))),
                       !.max_queue_lengths = Append(@, MaxOf(lengths))]

\* FogNode.can_accept_request
can_accept_request(node, request, time_step) ==
    IF node.link_capacity = None THEN TRUE
    ELSE LET capacity_this_step == node.link_capacity * time_step
             projected == node.current_link_load + request.data_size
         IN  projected <= capacity_this_step

\* min(1.0, max(0.0, x))
Clamp01(x) == RMin(RInt(1), RMax(RInt(0), x))

\* _priority_score whose waiting term is not capped at 1.
priority_score_wait_uncapped(node, request, current_time) ==
    LET g  == IF request.priority_class = 3 THEN <<1, 1>>
              ELSE IF request.priority_class = 2 THEN <<1, 2>> ELSE <<0, 1>>
        Di == AtLeastTiny(RInt(request.relative_deadline_s))
        u  == Clamp01(RSub(RInt(1),
                           RDiv(RInt(request.absolute_deadline - current_time), Di)))
        w  == RMax(RInt(0), RDiv(RInt(current_time - request.arrival_time), Di))
    IN  RAdd(RAdd(RMul(node.alpha, g), RMul(node.beta, u)), RMul(node.gamma, w))

\* The terms of _priority_score: g(kappa), u_i(t) and w_i(t).
class_term(request) ==
    IF request.priority_class = 3 THEN <<1, 1>>
    ELSE IF request.priority_class = 2 THEN <<1, 2>> ELSE <<0, 1>>

urgency_term(request, current_time) ==
    LET Di == AtLeastTiny(RInt(request.relative_deadline_s))
    IN  Clamp01(RSub(RInt(1),
                     RDiv(RInt(request.absolute_deadline - current_time), Di)))

waiting_term(request, current_time) ==
    LET Di == AtLeastTiny(RInt(request.relative_deadline_s))
    IN  Clamp01(RDiv(RInt(current_time - request.arrival_time), Di))

\* FogNode._priority_score
priority_score(node, request, current_time) ==
    LET g  == IF request.priority_class = 3 THEN <<1, 1>>
              ELSE IF request.priority_class = 2 THEN <<1, 2>> ELSE <<0, 1>>
        Di == AtLeastTiny(RInt(request.relative_deadline_s))
        u  == Clamp01(RSub(RInt(1),
                           RDiv(RInt(request.absolute_deadline - current_time), Di)))
        w  == Clamp01(RDiv(RInt(current_time - request.arrival_time), Di))
    IN  RAdd(RAdd(RMul(node.alpha, g), RMul(node.beta, u)), RMul(node.gamma, w))

\* W_n: the remaining demand of the three class queues plus the in-service
\* request, as _admission_control_check_timebased sums it.
RemainingOf(reqs, q) == SumSeq([i \in 1..Len(q) |-> reqs[q[i]].remaining_demand])

\* W_n without the in-service request.
total_remaining_queued_only(node, reqs) ==
    RemainingOf(reqs, node.dynamic_queue_3) + RemainingOf(reqs, node.dynamic_queue_2)
    + RemainingOf(reqs, node.dynamic_queue_1)

total_remaining(node, reqs) ==
    RemainingOf(reqs, node.dynamic_queue_3) + RemainingOf(reqs, node.dynamic_queue_2)
    + RemainingOf(reqs, node.dynamic_queue_1)
    + (IF node.current_request # None
       THEN reqs[node.current_request].remaining_demand ELSE 0)

\* t_finish = a_i + (W_n + c_i) / C_n
predicted_finish(node, reqs, request) ==
    RAdd(RInt(request.arrival_time),
         RDiv(RInt(total_remaining(node, reqs) + request.processing_demand),
              RInt(node.cpu_capacity)))

\* FogNode._admission_control_check_timebased
admission_control_check_timebased(node, reqs, request) ==
    RLe(predicted_finish(node, reqs, request), RInt(request.absolute_deadline))

(***************************************************************************)
(* FogNode.enqueue_request.  The result carries the program's return value *)
(* (success, reason) and the node and request table after the call.        *)
(***************************************************************************)
EnqResult(ok, why, node, reqs) ==
    [success |-> ok, reason |-> why, node |-> node, requests |-> reqs]

\* The queue-length test with > in place of >=.
queue_is_full_strict(node) ==
    node.max_queue_length # None
    /\ get_total_queue_length(node) > node.max_queue_length

\* The queue-length test that refuses one request early.
queue_is_full_one_early(node) ==
    node.max_queue_length # None
    /\ get_total_queue_length(node) + 1 >= node.max_queue_length

\* The queue-length test that opens enqueue_request.
queue_is_full(node) ==
    node.max_queue_length # None
    /\ get_total_queue_length(node) >= node.max_queue_length

\* A preemption that makes the new request current without taking it out of
\* its class queue.
sla_preempt_keeps_queued(node, reqs, r) ==
    LET request   == reqs[r]
        new_score == priority_score(node, request, request.arrival_time)
        run_score == priority_score(node, reqs[node.current_request],
                                    request.arrival_time)
    IN  IF node.current_request # None /\ RLt(run_score, new_score)
        THEN LET cf == DynField(reqs[node.current_request].priority_class)
                 n1 == [node EXCEPT ![cf] = <<node.current_request>> \o @]
                 n3 == [n1 EXCEPT !.current_request = r]
             IN  EnqResult(TRUE, "none", n3,
                           [reqs EXCEPT ![r].start_time =
                               IF @ = None THEN request.arrival_time ELSE @])
        ELSE EnqResult(TRUE, "none", node, reqs)

\* The optional preemption of the SLA branch: node already holds request r
\* at the back of its class queue.
sla_preempt(node, reqs, r) ==
    LET request   == reqs[r]
        new_score == priority_score(node, request, request.arrival_time)
        run_score == priority_score(node, reqs[node.current_request],
                                    request.arrival_time)
    IN  IF node.current_request # None /\ RLt(run_score, new_score)
        THEN LET cf == DynField(reqs[node.current_request].priority_class)
                 n1 == [node EXCEPT ![cf] = <<node.current_request>> \o @]
                 rf == DynField(request.priority_class)
                 n2 == [n1 EXCEPT ![rf] = PopRight(@)]
                 n3 == [n2 EXCEPT !.current_request = r]
             IN  EnqResult(TRUE, "none", n3,
                           [reqs EXCEPT ![r].start_time =
                               IF @ = None THEN request.arrival_time ELSE @])
        ELSE EnqResult(TRUE, "none", node, reqs)

\* enqueue_sla that reports the rejection but leaves the request queued.
enqueue_sla_reject_queued(node, reqs, r) ==
    IF ~admission_control_check_timebased(node, reqs, reqs[r])
    THEN EnqResult(FALSE, "admission_rejected",
                   [node EXCEPT !.total_rejected_due_to_deadline = @ + 1,
                                ![DynField(reqs[r].priority_class)] = Append(@, r)],
                   reqs)
    ELSE sla_preempt([node EXCEPT ![DynField(reqs[r].priority_class)] = Append(@, r)],
                     reqs, r)

\* The SLA branch of enqueue_request (it returns before the link load is
\* accumulated).
enqueue_sla(node, reqs, r) ==
    IF ~admission_control_check_timebased(node, reqs, reqs[r])
    THEN EnqResult(FALSE, "admission_rejected",
                   [node EXCEPT !.total_rejected_due_to_deadline = @ + 1], reqs)
    ELSE sla_preempt([node EXCEPT ![DynField(reqs[r].priority_class)] = Append(@, r)],
                     reqs, r)

\* The link-load accumulation that ends enqueue_request.
add_link_load(node, request) ==
    IF node.link_capacity # None
    THEN [node EXCEPT !.current_link_load = @ + request.data_size]
    ELSE node

\* enqueue_request that reports queue_full but keeps the request at the back
\* of the queue.
enqueue_request_full_keeps(node, reqs, r, time_step) ==
    LET request == reqs[r] IN
    IF queue_is_full(node)
    THEN EnqResult(FALSE, "queue_full", [node EXCEPT !.queue = Append(@, r)], reqs)
    ELSE IF IsSla(node)
    THEN enqueue_sla(node, reqs, r)
    ELSE IF node.scheduler = "STATIC_PRIORITY"
    THEN EnqResult(TRUE, "none",
                   add_link_load([node EXCEPT ![PrioField(request.priority_class)] =
                                      Append(@, r)], request), reqs)
    ELSE IF node.scheduler = "EMERGENCY_FIRST"
    THEN EnqResult(TRUE, "none",
                   add_link_load([node EXCEPT ![EmergencyField(request)] =
                                      Append(@, r)], request), reqs)
    ELSE EnqResult(TRUE, "none",
                   add_link_load([node EXCEPT !.queue = Append(@, r)], request), reqs)

enqueue_request(node, reqs, r, time_step) ==
    LET request == reqs[r] IN
    IF queue_is_full(node)
    THEN EnqResult(FALSE, "queue_full", node, reqs)
    ELSE IF IsSla(node)
    THEN enqueue_sla(node, reqs, r)
    ELSE IF node.scheduler = "STATIC_PRIORITY"
    THEN EnqResult(TRUE, "none",
                   add_link_load([node EXCEPT ![PrioField(request.priority_class)] =
                                      Append(@, r)], request), reqs)
    ELSE IF node.scheduler = "EMERGENCY_FIRST"
    THEN EnqResult(TRUE, "none",
                   add_link_load([node EXCEPT ![EmergencyField(request)] =
                                      Append(@, r)], request), reqs)
    ELSE IF node.max_queue_length # None /\ Len(node.queue) >= node.max_queue_length
    THEN EnqResult(FALSE, "queue_full", node, reqs)
    ELSE EnqResult(TRUE, "none",
                   add_link_load([node EXCEPT !.queue = Append(@, r)], request), reqs)

(***************************************************************************)
(* FogNode._select_next_request_sla: argmax of the score over the          *)
(* candidates in the order class-3, class-2, class-1 queue, front to back, *)
(* with the tie-breaks smaller slack, then larger wait.  sel is the pair   *)
(* (best_req, best_score) of the program's loop; best_req = None stands    *)
(* for the initial best_score of -inf.                                     *)
(***************************************************************************)
\* select_step without the tie-breaks: on equal scores the first candidate
\* stays.
select_step_no_tie_break(node, reqs, current_time, sel, r) ==
    LET score == priority_score(node, reqs[r], current_time) IN
    IF sel.best_req = None \/ RLt(sel.best_score, score)
    THEN [best_req |-> r, best_score |-> score]
    ELSE sel

select_step(node, reqs, current_time, sel, r) ==
    LET score == priority_score(node, reqs[r], current_time) IN
    IF sel.best_req = None \/ RLt(sel.best_score, score)
    THEN [best_req |-> r, best_score |-> score]
    ELSE IF score = sel.best_score
    THEN LET slack_best == reqs[sel.best_req].absolute_deadline - current_time
             slack_new  == reqs[r].absolute_deadline - current_time
             wait_best  == current_time - reqs[sel.best_req].arrival_time
             wait_new   == current_time - reqs[r].arrival_time
         IN  IF slack_new < slack_best
             THEN [sel EXCEPT !.best_req = r]
             ELSE IF slack_new = slack_best /\ wait_new > wait_best
             THEN [sel EXCEPT !.best_req = r]
             ELSE sel
    ELSE sel

RECURSIVE select_loop(_, _, _, _, _)
select_loop(node, reqs, current_time, sel, candidates) ==
    IF candidates = <<>> THEN sel.best_req
    ELSE select_loop(node, reqs, current_time,
                     select_step(node, reqs, current_time, sel, Head(candidates)),
                     Tail(candidates))

\* The candidates without the class-1 queue.
sla_candidates_without_class_1(node) ==
    node.dynamic_queue_3 \o node.dynamic_queue_2

\* The candidates of _select_next_request_sla: the three class queues, in
\* this order.
sla_candidates(node) ==
    node.dynamic_queue_3 \o node.dynamic_queue_2 \o node.dynamic_queue_1

select_next_request_sla(node, reqs, current_time) ==
    select_loop(node, reqs, current_time,
                [best_req |-> None, best_score |-> <<0, 1>>],
                sla_candidates(node))

(***************************************************************************)
(* FogNode._update_sla_weights_window                                      *)
(***************************************************************************)
\* Mean of the latencies of the requests of s (s non-empty).
MeanLatency(reqs, s) ==
    Rat(SumSeq([i \in 1..Len(s) |-> latency(reqs[s[i]])]), Len(s))

window_tasks(node, reqs, current_time, cfg) ==
    LET InWindow(r) == /\ reqs[r].completion_time # None
                       /\ reqs[r].completion_time >= current_time - cfg.sla_window_TW
    IN  SelectSeq(node.completed_history, InWindow)

\* J1 as the missed class-3 completions over all completions of the window.
window_J1_over_all(reqs, tasks) ==
    LET IsEmer(r) == reqs[r].priority_class = 3
        emer      == SelectSeq(tasks, IsEmer)
        Missed(r) == ~deadline_met(reqs[r])
    IN  IF emer # <<>> THEN Rat(Len(SelectSeq(emer, Missed)), Len(tasks))
        ELSE <<0, 1>>

\* J1: emergency miss ratio of the window.
window_J1(reqs, tasks) ==
    LET IsEmer(r) == reqs[r].priority_class = 3
        emer      == SelectSeq(tasks, IsEmer)
        Missed(r) == ~deadline_met(reqs[r])
    IN  IF emer # <<>> THEN Rat(Len(SelectSeq(emer, Missed)), Len(emer))
        ELSE <<0, 1>>

\* J2: mean end-to-end latency of the window.
window_J2(reqs, tasks) ==
    IF tasks # <<>> THEN MeanLatency(reqs, tasks) ELSE <<0, 1>>

\* J3: mean class-1 latency over mean class-3 latency; 1.0 if undefined.
window_J3(reqs, tasks) ==
    LET IsNormal(r) == reqs[r].priority_class = 1
        IsEmer(r)   == reqs[r].priority_class = 3
        normal      == SelectSeq(tasks, IsNormal)
        emer_l      == SelectSeq(tasks, IsEmer)
    IN  IF emer_l # <<>> /\ normal # <<>>
        THEN RDiv(MeanLatency(reqs, normal),
                  AtLeastTiny(MeanLatency(reqs, emer_l)))
        ELSE <<1, 1>>

\* The dual step without the clamp at 0.
dual_update_unclamped(lambda, eta, J, J_max) ==
    RAdd(lambda, RMul(eta, RSub(J, J_max)))

\* lambda <- max(0, lambda + eta * (J - J_max))
dual_update(lambda, eta, J, J_max) ==
    RMax(<<0, 1>>, RAdd(lambda, RMul(eta, RSub(J, J_max))))

\* normalize_weights whose sum S counts eps once instead of three times.
normalize_weights_one_eps(node, eps) ==
    LET S == RAdd(RAdd(RAdd(node.lambda_1, node.lambda_2), node.lambda_3), eps)
    IN  [node EXCEPT !.alpha = RDiv(RAdd(node.lambda_1, eps), S),
                     !.beta  = RDiv(RAdd(node.lambda_2, eps), S),
                     !.gamma = RDiv(RAdd(node.lambda_3, eps), S)]

\* alpha, beta, gamma <- (lambda_k + eps) / S
normalize_weights(node, eps) ==
    LET S == RAdd(RAdd(RAdd(node.lambda_1, eps), RAdd(node.lambda_2, eps)),
                  RAdd(node.lambda_3, eps))
    IN  [node EXCEPT !.alpha = RDiv(RAdd(node.lambda_1, eps), S),
                     !.beta  = RDiv(RAdd(node.lambda_2, eps), S),
                     !.gamma = RDiv(RAdd(node.lambda_3, eps), S)]

update_sla_weights_window(node, reqs, current_time, cfg) ==
    LET tasks == window_tasks(node, reqs, current_time, cfg) IN
    IF tasks = <<>> THEN node
    ELSE normalize_weights(
           [node EXCEPT
              !.lambda_1 = dual_update(@, cfg.sla_eta1, window_J1(reqs, tasks),
                                       cfg.sla_J1_max),
              !.lambda_2 = dual_update(@, cfg.sla_eta2, window_J2(reqs, tasks),
                                       cfg.sla_J2_max_s),
              !.lambda_3 = dual_update(@, cfg.sla_eta3, window_J3(reqs, tasks),
                                       cfg.sla_J3_max)],
           cfg.sla_eps)

\* sla_window_boundary that updates on every step from time TW on.
sla_window_boundary_every_step(node, reqs, current_time, cfg) ==
    IF current_time >= cfg.sla_window_TW
    THEN [update_sla_weights_window(node, reqs, current_time, cfg)
              EXCEPT !.last_window_update = current_time]
    ELSE node

\* The tail of the SLA branch of process_one_step: update the weights when
\* at least TW seconds passed since the last update.
sla_window_boundary(node, reqs, current_time, cfg) ==
    IF current_time - node.last_window_update >= cfg.sla_window_TW
    THEN [update_sla_weights_window(node, reqs, current_time, cfg)
              EXCEPT !.last_window_update = current_time]
    ELSE node

(***************************************************************************)
(* FogNode.process_one_step, one loop iteration at a time.                 *)
(***************************************************************************)
\* serve_head that finishes the head request without charging the budget.
serve_head_uncharged(reqs, r, cap, current_time, time_step) ==
    LET started == [reqs EXCEPT ![r].start_time =
                        IF @ = None THEN current_time ELSE @]
    IN  IF started[r].remaining_demand <= cap
        THEN [requests |-> [started EXCEPT ![r].remaining_demand = 0,
                                           ![r].completion_time =
                                               current_time + time_step],
              capacity_left |-> cap,
              finished |-> TRUE]
        ELSE [requests |-> [started EXCEPT ![r].remaining_demand = @ - cap],
              capacity_left |-> 0,
              finished |-> FALSE]

\* serve_head whose fit test is < in place of <=.
serve_head_strict(reqs, r, cap, current_time, time_step) ==
    LET started == [reqs EXCEPT ![r].start_time =
                        IF @ = None THEN current_time ELSE @]
    IN  IF started[r].remaining_demand < cap
        THEN [requests |-> [started EXCEPT ![r].remaining_demand = 0,
                                           ![r].completion_time =
                                               current_time + time_step],
              capacity_left |-> cap - started[r].remaining_demand,
              finished |-> TRUE]
        ELSE [requests |-> [started EXCEPT ![r].remaining_demand = @ - cap],
              capacity_left |-> 0,
              finished |-> FALSE]

\* serve_head that stamps the completion with the step's start time.
serve_head_stamp_now(reqs, r, cap, current_time, time_step) ==
    LET started == [reqs EXCEPT ![r].start_time =
                        IF @ = None THEN current_time ELSE @]
    IN  IF started[r].remaining_demand <= cap
        THEN [requests |-> [started EXCEPT ![r].remaining_demand = 0,
                                           ![r].completion_time = current_time],
              capacity_left |-> cap - started[r].remaining_demand,
              finished |-> TRUE]
        ELSE [requests |-> [started EXCEPT ![r].remaining_demand = @ - cap],
              capacity_left |-> 0,
              finished |-> FALSE]

\* serve_head whose completion stamp depends on the budget used: the end of
\* the step only when the request used the budget up, its start otherwise.
serve_head_stamp_by_share(reqs, r, cap, current_time, time_step) ==
    LET started == [reqs EXCEPT ![r].start_time =
                        IF @ = None THEN current_time ELSE @]
    IN  IF started[r].remaining_demand <= cap
        THEN [requests |-> [started EXCEPT ![r].remaining_demand = 0,
                                           ![r].completion_time =
                                               IF started[r].remaining_demand = cap
                                               THEN current_time + time_step
                                               ELSE current_time],
              capacity_left |-> cap - started[r].remaining_demand,
              finished |-> TRUE]
        ELSE [requests |-> [started EXCEPT ![r].remaining_demand = @ - cap],
              capacity_left |-> 0,
              finished |-> FALSE]

\* The body of the head-of-queue loops (FIFO, EMERGENCY_FIRST,
\* STATIC_PRIORITY): start the head request r if needed, then finish it or
\* spend the whole remaining budget on it.
serve_head(reqs, r, cap, current_time, time_step) ==
    LET started == [reqs EXCEPT ![r].start_time =
                        IF @ = None THEN current_time ELSE @]
    IN  IF started[r].remaining_demand <= cap
        THEN [requests |-> [started EXCEPT ![r].remaining_demand = 0,
                                           ![r].completion_time =
                                               current_time + time_step],
              capacity_left |-> cap - started[r].remaining_demand,
              finished |-> TRUE]
        ELSE [requests |-> [started EXCEPT ![r].remaining_demand = @ - cap],
              capacity_left |-> 0,
              finished |-> FALSE]

\* sla_continue_current that leaves the loop once the current request is
\* finished, whatever budget is left.
sla_continue_current_then_stop(node, reqs, cap, done, current_time, time_step) ==
    LET c == node.current_request IN
    IF c = None
    THEN [node |-> node, requests |-> reqs, capacity_left |-> cap,
          completed |-> done, exit |-> FALSE]
    ELSE IF reqs[c].remaining_demand <= cap
    THEN [node |-> [node EXCEPT !.completed_history = Append(@, c),
                                !.current_request = None],
          requests |-> [reqs EXCEPT ![c].remaining_demand = 0,
                                    ![c].completion_time = current_time + time_step],
          capacity_left |-> cap - reqs[c].remaining_demand,
          completed |-> Append(done, c),
          exit |-> TRUE]
    ELSE [node |-> node,
          requests |-> [reqs EXCEPT ![c].remaining_demand = @ - cap],
          capacity_left |-> 0,
          completed |-> done,
          exit |-> TRUE]

\* The first half of an iteration of the SLA loop: continue the current
\* request.  exit is the program's break.
sla_continue_current(node, reqs, cap, done, current_time, time_step) ==
    LET c == node.current_request IN
    IF c = None
    THEN [node |-> node, requests |-> reqs, capacity_left |-> cap,
          completed |-> done, exit |-> FALSE]
    ELSE IF reqs[c].remaining_demand <= cap
    THEN [node |-> [node EXCEPT !.completed_history = Append(@, c),
                                !.current_request = None],
          requests |-> [reqs EXCEPT ![c].remaining_demand = 0,
                                    ![c].completion_time = current_time + time_step],
          capacity_left |-> cap - reqs[c].remaining_demand,
          completed |-> Append(done, c),
          exit |-> FALSE]
    ELSE [node |-> node,
          requests |-> [reqs EXCEPT ![c].remaining_demand = @ - cap],
          capacity_left |-> 0,
          completed |-> done,
          exit |-> TRUE]

\* The second half: select the next request, take it out of its class
\* queue and make it current.
sla_start_next(st, current_time) ==
    LET next_req == select_next_request_sla(st.node, st.requests, current_time) IN
    IF next_req = None THEN [st EXCEPT !.exit = TRUE]
    ELSE [st EXCEPT
            !.node = [@ EXCEPT ![DynField(st.requests[next_req].priority_class)] =
                                   Remove(@, next_req),
                               !.current_request = next_req],
            !.requests = [@ EXCEPT ![next_req].start_time =
                              IF @ = None THEN current_time ELSE @]]

\* One iteration of "while capacity_left > 0" of the SLA branch.
sla_iteration(node, reqs, cap, done, current_time, time_step) ==
    LET st == sla_continue_current(node, reqs, cap, done, current_time, time_step)
    IN  IF st.exit THEN st ELSE sla_start_next(st, current_time)

\* Where process_one_step starts for a scheduler.
first_position(node) ==
    IF IsSla(node) THEN "sla_loop"
    ELSE IF node.scheduler = "STATIC_PRIORITY" THEN "class3"
    ELSE IF node.scheduler = "EMERGENCY_FIRST" THEN "emergency"
    ELSE "fifo"

(***************************************************************************)
(* build_grid_topology: ValueError for a non-positive grid dimension,      *)
(* otherwise num_fog_nodes_x * num_fog_nodes_y fresh nodes.                *)
(***************************************************************************)
\* build_grid_topology without the test of the dimensions: range() of a
\* non-positive number is empty, so the grid has no node.
build_grid_topology_unchecked(cfg) ==
    [error |-> FALSE,
     fog_nodes |-> IF cfg.num_fog_nodes_x <= 0 \/ cfg.num_fog_nodes_y <= 0
                   THEN <<>>
                   ELSE [n \in 1..(cfg.num_fog_nodes_x * cfg.num_fog_nodes_y) |->
                            NewFogNode(cfg)]]

build_grid_topology(cfg) ==
    IF cfg.num_fog_nodes_x <= 0 \/ cfg.num_fog_nodes_y <= 0
    THEN [error |-> TRUE, fog_nodes |-> <<>>]
    ELSE [error |-> FALSE,
          fog_nodes |-> [n \in 1..(cfg.num_fog_nodes_x * cfg.num_fog_nodes_y) |->
                            NewFogNode(cfg)]]

(***************************************************************************)
(* State.                                                                  *)
(*   config         the SimulationConfig of the run                        *)
(*   time           Simulation.run's clock                                 *)
(*   pc             position in Simulation.run: "generate" (top of the     *)
(*                  while loop), "route" (the loop over new_requests),     *)
(*                  "process" (the loop over the nodes), "done"            *)
(*   requests       every Request object created so far, by request_id     *)
(*                  (ids start at 1 here, at 0 in the program)             *)
(*   outcome        how the engine classified each request                 *)
(*   new_requests   the part of the step's batch not yet routed            *)
(*   nodes          the FogNode objects (node_id starts at 1 here)         *)
(*   metrics        the MetricsCollector counters                          *)
(*   cur_node       the node whose process_one_step is running             *)
(*   ppc            position inside that process_one_step                  *)
(*   capacity_left, completed   its locals                                 *)
(*   entry_requests the request table as it was when that                  *)
(*                  process_one_step was entered (history variable)        *)
(*   all_completed  the step's completions collected by the engine         *)
(***************************************************************************)
VARIABLES config, time, pc, requests, outcome, new_requests, nodes, metrics,
          cur_node, ppc, capacity_left, completed, all_completed,
          entry_requests

vars == <<config, time, pc, requests, outcome, new_requests, nodes, metrics,
          cur_node, ppc, capacity_left, completed, all_completed,
          entry_requests>>

NumNodes == Cardinality(Nodes)

\* Simulation.__init__ followed by the first lines of run.
Init ==
    /\ config \in Configs
    /\ time = 0
    /\ pc = "generate"
    /\ requests = <<>>
    /\ outcome = <<>>
    /\ new_requests = <<>>
    /\ nodes = [n \in Nodes |-> NewFogNode(config)]
    /\ metrics = NewMetrics
    /\ cur_node = 0
    /\ ppc = "idle"
    /\ capacity_left = 0
    /\ completed = <<>>
    /\ all_completed = <<>>
    /\ entry_requests = <<>>

\* Simulation.__init__: build the topology, then the generator and the
\* metrics collector (neither of which checks the configuration); the
\* ValueError of build_grid_topology leaves the constructor.
Construct ==
    /\ pc = "construct"
    /\ LET topology == build_grid_topology(config) IN
       IF topology.error
       THEN pc' = "error" /\ nodes' = nodes
       ELSE pc' = "generate" /\ nodes' = topology.fog_nodes
    /\ UNCHANGED <<config, time, requests, outcome, new_requests, metrics,
                   cur_node, ppc, capacity_left, completed, all_completed,
                   entry_requests>>

\* Generate without the reset_step_state of step 1.
Generate_keeps_link_load ==
    /\ pc = "generate"
    /\ time < config.sim_time
    /\ \E batch \in generate_requests(config, MaxRequests - Len(requests)) :
         /\ requests' = requests \o
                [i \in 1..Len(batch) |-> NewRequest(batch[i][1], batch[i][2], time)]
         /\ outcome' = outcome \o [i \in 1..Len(batch) |-> "new"]
         /\ new_requests' = [i \in 1..Len(batch) |-> Len(requests) + i]
         /\ metrics' = record_generated(metrics, Len(batch))
    /\ pc' = "route"
    /\ UNCHANGED <<config, time, nodes, cur_node, ppc, capacity_left, completed,
                   all_completed, entry_requests>>

\* Steps 1 and 2 of the loop body: reset every node's link load, pull the
\* step's batch from the generator and count it.
Generate ==
    /\ pc = "generate"
    /\ time < config.sim_time
    /\ \E batch \in generate_requests(config, MaxRequests - Len(requests)) :
         /\ requests' = requests \o
                [i \in 1..Len(batch) |-> NewRequest(batch[i][1], batch[i][2], time)]
         /\ outcome' = outcome \o [i \in 1..Len(batch) |-> "new"]
         /\ new_requests' = [i \in 1..Len(batch) |-> Len(requests) + i]
         /\ metrics' = record_generated(metrics, Len(batch))
    /\ nodes' = [n \in Nodes |-> [nodes[n] EXCEPT !.current_link_load = 0]]
    /\ pc' = "route"
    /\ UNCHANGED <<config, time, cur_node, ppc, capacity_left, completed,
                   all_completed, entry_requests>>

\* Step 3 for one request: route it, check the link, try to admit it and
\* classify the outcome.
Route ==
    /\ pc = "route"
    /\ new_requests # <<>>
    /\ LET r     == Head(new_requests)
           fog   == get_nearest_fog(requests[r].source_position)
           reqs1 == [requests EXCEPT ![r].assigned_fog_id = fog]
           dt    == config.time_step
       IN  IF can_accept_request(nodes[fog], reqs1[r], dt)
           THEN LET res == enqueue_request(nodes[fog], reqs1, r, dt) IN
                /\ nodes' = [nodes EXCEPT ![fog] = res.node]
                /\ requests' = res.requests
                /\ IF res.success
                   THEN /\ metrics' = [metrics EXCEPT !.total_admitted = @ + 1]
                        /\ outcome' = [outcome EXCEPT ![r] = "admitted"]
                   ELSE IF res.reason = "admission_rejected"
                   THEN /\ metrics' = record_rejected(metrics, res.reason)
                        /\ outcome' = [outcome EXCEPT ![r] = "admission_rejected"]
                   ELSE /\ metrics' = record_dropped(metrics, "queue_full")
                        /\ outcome' = [outcome EXCEPT ![r] = "queue_full"]
           ELSE /\ nodes' = nodes
                /\ requests' = reqs1
                /\ metrics' = record_dropped(metrics, "link_capacity")
                /\ outcome' = [outcome EXCEPT ![r] = "link_capacity"]
    /\ new_requests' = Tail(new_requests)
    /\ UNCHANGED <<config, time, pc, cur_node, ppc, capacity_left, completed,
                   all_completed, entry_requests>>

\* Entering process_one_step of node n: completed = [] and
\* capacity_left = cpu_capacity * time_step.
EnterProcess(n) ==
    IF n \in Nodes
    THEN /\ capacity_left' = nodes[n].cpu_capacity * config.time_step
         /\ ppc' = first_position(nodes[n])
         /\ entry_requests' = requests
    ELSE /\ capacity_left' = 0
         /\ ppc' = "idle"
         /\ entry_requests' = <<>>

\* Step 4 begins: all_completed = [] and the first node is processed.
BeginProcessing ==
    /\ pc = "route"
    /\ new_requests = <<>>
    /\ pc' = "process"
    /\ cur_node' = 1
    /\ all_completed' = <<>>
    /\ completed' = <<>>
    /\ EnterProcess(1)
    /\ UNCHANGED <<config, time, requests, outcome, new_requests, nodes, metrics>>

\* ServeQueue that serves the back of the queue.
ServeQueue_from_back(f) ==
    LET q   == nodes[cur_node][f]
        r   == q[Len(q)]
        res == serve_head(requests, r, capacity_left, time, config.time_step)
    IN  /\ requests' = res.requests
        /\ capacity_left' = res.capacity_left
        /\ completed' = IF res.finished THEN Append(completed, r) ELSE completed
        /\ nodes' = IF res.finished
                    THEN [nodes EXCEPT ![cur_node][f] = PopRight(@)]
                    ELSE nodes

\* ServeQueue that leaves a finished request at the head of its queue.
ServeQueue_keep_head(f) ==
    LET r   == Head(nodes[cur_node][f])
        res == serve_head(requests, r, capacity_left, time, config.time_step)
    IN  /\ requests' = res.requests
        /\ capacity_left' = res.capacity_left
        /\ completed' = IF res.finished THEN Append(completed, r) ELSE completed
        /\ nodes' = nodes

\* ServeQueue that serves any request of the queue.
ServeQueue_any_position(f) ==
    \E r \in Range(nodes[cur_node][f]) :
        LET res == serve_head(requests, r, capacity_left, time, config.time_step)
        IN  /\ requests' = res.requests
            /\ capacity_left' = res.capacity_left
            /\ completed' = IF res.finished THEN Append(completed, r) ELSE completed
            /\ nodes' = IF res.finished
                        THEN [nodes EXCEPT ![cur_node][f] = Remove(@, r)]
                        ELSE nodes

\* ServeQueue that also files a finished request in the completion history
\* of the SLA policy.
ServeQueue_tracks_history(f) ==
    LET r   == Head(nodes[cur_node][f])
        res == serve_head(requests, r, capacity_left, time, config.time_step)
    IN  /\ requests' = res.requests
        /\ capacity_left' = res.capacity_left
        /\ completed' = IF res.finished THEN Append(completed, r) ELSE completed
        /\ nodes' = IF res.finished
                    THEN [nodes EXCEPT ![cur_node][f] = Tail(@),
                                       ![cur_node].completed_history = Append(@, r)]
                    ELSE nodes

\* One iteration of a head-of-queue loop over the queue in field f of the
\* node being processed.
ServeQueue(f) ==
    LET r   == Head(nodes[cur_node][f])
        res == serve_head(requests, r, capacity_left, time, config.time_step)
    IN  /\ requests' = res.requests
        /\ capacity_left' = res.capacity_left
        /\ completed' = IF res.finished THEN Append(completed, r) ELSE completed
        /\ nodes' = IF res.finished
                    THEN [nodes EXCEPT ![cur_node][f] = Tail(@)]
                    ELSE nodes

\* The loop condition "while queue and capacity_left > 0".
LoopRuns(f) == nodes[cur_node][f] # <<>> /\ capacity_left > 0

process_frame == <<config, time, pc, outcome, new_requests, metrics, cur_node,
                   all_completed, entry_requests>>

\* FIFO: one iteration of the loop over self.queue.
FifoServe ==
    /\ pc = "process" /\ ppc = "fifo"
    /\ LoopRuns("queue")
    /\ ServeQueue("queue")
    /\ UNCHANGED <<process_frame, ppc>>

FifoDone ==
    /\ pc = "process" /\ ppc = "fifo"
    /\ ~LoopRuns("queue")
    /\ ppc' = "return"
    /\ UNCHANGED <<process_frame, requests, nodes, capacity_left, completed>>

\* EMERGENCY_FIRST: the loop over emergency_queue, then over normal_queue.
EmergencyServe ==
    /\ pc = "process" /\ ppc = "emergency"
    /\ LoopRuns("emergency_queue")
    /\ ServeQueue("emergency_queue")
    /\ UNCHANGED <<process_frame, ppc>>

EmergencyDone ==
    /\ pc = "process" /\ ppc = "emergency"
    /\ ~LoopRuns("emergency_queue")
    /\ ppc' = "normal"
    /\ UNCHANGED <<process_frame, requests, nodes, capacity_left, completed>>

NormalServe ==
    /\ pc = "process" /\ ppc = "normal"
    /\ LoopRuns("normal_queue")
    /\ ServeQueue("normal_queue")
    /\ UNCHANGED <<process_frame, ppc>>

NormalDone ==
    /\ pc = "process" /\ ppc = "normal"
    /\ ~LoopRuns("normal_queue")
    /\ ppc' = "return"
    /\ UNCHANGED <<process_frame, requests, nodes, capacity_left, completed>>

\* The class queues visited in the order 1, 2, 3.
static_class_ascending(position) ==
    IF position = "class3" THEN 1 ELSE IF position = "class2" THEN 2 ELSE 3

\* STATIC_PRIORITY: "for queue in [priority_queue_3, priority_queue_2,
\* priority_queue_1]" with the head-of-queue loop inside.
static_class(position) ==
    IF position = "class3" THEN 3 ELSE IF position = "class2" THEN 2 ELSE 1

static_next(position) ==
    IF position = "class3" THEN "class2"
    ELSE IF position = "class2" THEN "class1" ELSE "return"

StaticServe ==
    /\ pc = "process" /\ ppc \in {"class3", "class2", "class1"}
    /\ LoopRuns(PrioField(static_class(ppc)))
    /\ ServeQueue(PrioField(static_class(ppc)))
    /\ UNCHANGED <<process_frame, ppc>>

StaticNextQueue ==
    /\ pc = "process" /\ ppc \in {"class3", "class2", "class1"}
    /\ ~LoopRuns(PrioField(static_class(ppc)))
    /\ ppc' = static_next(ppc)
    /\ UNCHANGED <<process_frame, requests, nodes, capacity_left, completed>>

\* SLA-DWP-Fog: one iteration of "while capacity_left > 0".
SlaIteration ==
    /\ pc = "process" /\ ppc = "sla_loop"
    /\ capacity_left > 0
    /\ LET st == sla_iteration(nodes[cur_node], requests, capacity_left,
                               completed, time, config.time_step)
       IN  /\ nodes' = [nodes EXCEPT ![cur_node] = st.node]
           /\ requests' = st.requests
           /\ capacity_left' = st.capacity_left
           /\ completed' = st.completed
           /\ ppc' = IF st.exit THEN "sla_window" ELSE "sla_loop"
    /\ UNCHANGED process_frame

SlaLoopExit ==
    /\ pc = "process" /\ ppc = "sla_loop"
    /\ ~(capacity_left > 0)
    /\ ppc' = "sla_window"
    /\ UNCHANGED <<process_frame, requests, nodes, capacity_left, completed>>

\* SlaWindowUpdate with dual variables and weights shared by all nodes: the
\* update of one node is applied to every node.
SlaWindowUpdate_all_nodes ==
    /\ pc = "process" /\ ppc = "sla_window"
    /\ nodes' = [n \in Nodes |-> sla_window_boundary(nodes[n], requests, time, config)]
    /\ ppc' = "return"
    /\ UNCHANGED <<process_frame, requests, capacity_left, completed>>

\* The weight update at time-window boundaries that ends the SLA branch.
SlaWindowUpdate ==
    /\ pc = "process" /\ ppc = "sla_window"
    /\ nodes' = [nodes EXCEPT ![cur_node] =
                    sla_window_boundary(@, requests, time, config)]
    /\ ppc' = "return"
    /\ UNCHANGED <<process_frame, requests, capacity_left, completed>>

\* "return completed", the engine's all_completed.extend(completed), and
\* the call of process_one_step on the next node.
ReturnCompleted ==
    /\ pc = "process" /\ ppc = "return"
    /\ all_completed' = all_completed \o completed
    /\ cur_node' = cur_node + 1
    /\ completed' = <<>>
    /\ EnterProcess(cur_node + 1)
    /\ UNCHANGED <<config, time, pc, requests, outcome, new_requests, nodes,
                   metrics>>

\* EndStep that leaves the clock where it is.
EndStep_clock_stalls ==
    /\ pc = "process" /\ ppc = "idle"
    /\ metrics' = record_queue_lengths(
                      record_completed(metrics, all_completed), nodes)
    /\ time' = time
    /\ pc' = "generate"
    /\ cur_node' = 0
    /\ all_completed' = <<>>
    /\ UNCHANGED <<config, requests, outcome, new_requests, nodes, ppc,
                   capacity_left, completed, entry_requests>>

\* Steps 4 (end) to 6: record the completions, snapshot the queue lengths,
\* advance the clock.
EndStep ==
    /\ pc = "process" /\ ppc = "idle"
    /\ metrics' = record_queue_lengths(
                      record_completed(metrics, all_completed), nodes)
    /\ time' = time + config.time_step
    /\ pc' = "generate"
    /\ cur_node' = 0
    /\ all_completed' = <<>>
    /\ UNCHANGED <<config, requests, outcome, new_requests, nodes, ppc,
                   capacity_left, completed, entry_requests>>

\* The loop of run has ended: collect the nodes' admission-control counters
\* and return the report.
Finish ==
    /\ pc = "generate"
    /\ ~(time < config.sim_time)
    /\ metrics' = [metrics EXCEPT !.total_rejected_due_to_deadline =
                      @ + SumSeq([n \in Nodes |->
                                     nodes[n].total_rejected_due_to_deadline])]
    /\ pc' = "done"
    /\ UNCHANGED <<config, time, requests, outcome, new_requests, nodes,
                   cur_node, ppc, capacity_left, completed, all_completed,
                   entry_requests>>

Next ==
    \/ Generate
    \/ Route
    \/ BeginProcessing
    \/ FifoServe
    \/ FifoDone
    \/ EmergencyServe
    \/ EmergencyDone
    \/ NormalServe
    \/ NormalDone
    \/ StaticServe
    \/ StaticNextQueue
    \/ SlaIteration
    \/ SlaLoopExit
    \/ SlaWindowUpdate
    \/ ReturnCompleted
    \/ EndStep
    \/ Finish

Spec == Init /\ [][Next]_vars

(***************************************************************************)
(* Vocabulary of the properties.                                           *)
(***************************************************************************)
Ids == 1..Len(requests)

\* The engine is between two steps (or has returned).
AtStepBoundary == pc \in {"generate", "done"}

\* The number of requests the engine classified as o.
CountOutcome(o) == Cardinality({i \in Ids : outcome[i] = o})

\* The queue fields of a node, whatever its policy.
QueueFields ==
    {"queue", "emergency_queue", "normal_queue", "priority_queue_3",
     "priority_queue_2", "priority_queue_1", "dynamic_queue_3",
     "dynamic_queue_2", "dynamic_queue_1"}

\* Request i sits in some queue of node n / is its in-service request.
Queued(n, i) == \E f \in QueueFields : i \in Range(nodes[n][f])
InService(n, i) == nodes[n].current_request = i
HeldBy(n, i) == Queued(n, i) \/ InService(n, i)

\* The number of requests node n holds: all queue positions plus the
\* in-service slot.
\* The sum of the function F over the finite set S.
RECURSIVE SumOver(_, _)
SumOver(S, F) ==
    IF S = {} THEN 0
    ELSE LET x == CHOOSE y \in S : TRUE IN F[x] + SumOver(S \ {x}, F)

HeldCount(n) ==
    SumOver(QueueFields, [f \in QueueFields |-> Len(nodes[n][f])])
         + (IF nodes[n].current_request # None THEN 1 ELSE 0)

\* The per-step CPU budget of node n.
Budget(n) == nodes[n].cpu_capacity * config.time_step

(***************************************************************************)
(* C1.  At every step boundary of Simulation.run the counters balance:     *)
(* total_generated = total_admitted + total_rejected + total_dropped, and  *)
(* every generated request is classified exactly once: the admitted        *)
(* counter counts the requests classified admitted, the rejected counter   *)
(* those classified admission_rejected, the dropped counter those          *)
(* classified link_capacity or queue_full.                                 *)
(***************************************************************************)
C1_Conservation ==
    AtStepBoundary =>
        /\ metrics.total_generated =
               metrics.total_admitted + metrics.total_rejected + metrics.total_dropped
        /\ metrics.total_generated = Len(requests)
        /\ \A i \in Ids : outcome[i] \in {"admitted", "admission_rejected",
                                          "link_capacity", "queue_full"}
        /\ metrics.total_admitted = CountOutcome("admitted")
        /\ metrics.total_rejected = CountOutcome("admission_rejected")
        /\ metrics.total_dropped =
               CountOutcome("link_capacity") + CountOutcome("queue_full")

\* A boundary after a step that admitted one request and rejected another.
C1_Witness ==
    /\ pc = "generate" /\ time > 0
    /\ metrics.total_admitted >= 1
    /\ metrics.total_rejected >= 1

(***************************************************************************)
(* C2.  A node with a bounded max_queue_length never holds more than       *)
(* max_queue_length requests (queued plus in service), in any state, under *)
(* any of the four policies.                                               *)
(***************************************************************************)
C2_QueueBound ==
    \A n \in Nodes :
        nodes[n].max_queue_length # None => HeldCount(n) <= nodes[n].max_queue_length

\* A full node has turned a request away.
C2_Witness ==
    \E n \in Nodes :
        /\ nodes[n].max_queue_length # None
        /\ HeldCount(n) = nodes[n].max_queue_length
        /\ \E i \in Ids : outcome[i] = "queue_full" /\ requests[i].assigned_fog_id = n

(***************************************************************************)
(* C3.  In every call of process_one_step the total amount by which        *)
(* requests' remaining_demand has been reduced since the call was entered  *)
(* is at most cpu_capacity * dt.                                           *)
(***************************************************************************)
WorkDoneInCall ==
    SumOver(1..Len(entry_requests),
            [i \in 1..Len(entry_requests) |->
                entry_requests[i].remaining_demand - requests[i].remaining_demand])

C3_BudgetRespected ==
    (pc = "process" /\ cur_node \in Nodes) => WorkDoneInCall <= Budget(cur_node)

\* A call that spent its whole budget on two requests.
C3_Witness ==
    /\ pc = "process" /\ ppc = "return"
    /\ WorkDoneInCall = Budget(cur_node)
    /\ Cardinality({i \in 1..Len(entry_requests) :
                      entry_requests[i].remaining_demand
                          > requests[i].remaining_demand}) >= 2

(***************************************************************************)
(* C4.  Under every policy a request's remaining_demand never increases    *)
(* from one state to the next and is never negative, and it is 0 exactly   *)
(* when completion_time is set.                                            *)
(***************************************************************************)
C4_RemainingDemand ==
    /\ [](\A i \in Ids :
            /\ requests[i].remaining_demand >= 0
            /\ requests[i].remaining_demand = 0 <=> requests[i].completion_time # None)
    /\ [][\A i \in Ids :
            requests'[i].remaining_demand <= requests[i].remaining_demand]_vars

\* One request was served in part and another to completion.
C4_Witness ==
    /\ \E i \in Ids :
         /\ requests[i].remaining_demand > 0
         /\ requests[i].remaining_demand < requests[i].processing_demand
    /\ \E j \in Ids :
         /\ requests[j].remaining_demand = 0
         /\ requests[j].completion_time # None

(***************************************************************************)
(* C5.  Under SLA-DWP-Fog, a request becomes admitted only in a call in    *)
(* which arrival_time + (W_n + processing_demand) / cpu_capacity <=        *)
(* absolute_deadline, W_n being the remaining demand of everything the     *)
(* node holds (class queues and in-service request) when the call is made; *)
(* a request that was not admitted (admission_rejected, or dropped before  *)
(* the test) is in no queue, is not in service and is never started or     *)
(* served.                                                                 *)
(***************************************************************************)
\* cpu_capacity * (arrival_time - absolute_deadline) + W_n + processing_demand,
\* W_n summed over what node n holds in the current state.
FinishOverrun(n, i) ==
    LET held == {j \in Ids : HeldBy(n, j)}
        W_n  == SumOver(held, [j \in held |-> requests[j].remaining_demand])
    IN  nodes[n].cpu_capacity * (requests[i].arrival_time - requests[i].absolute_deadline)
        + W_n + requests[i].processing_demand

C5_AdmissionSound ==
    /\ [][\A i \in Ids :
            (config.scheduler = "SLA-DWP-Fog" /\ outcome[i] = "new"
             /\ outcome'[i] = "admitted")
            => FinishOverrun(requests'[i].assigned_fog_id, i) <= 0]_vars
    /\ [](\A i \in Ids :
            (config.scheduler = "SLA-DWP-Fog"
             /\ outcome[i] \in {"admission_rejected", "queue_full", "link_capacity"}) =>
                /\ \A n \in Nodes : ~HeldBy(n, i)
                /\ requests[i].start_time = None
                /\ requests[i].completion_time = None
                /\ requests[i].remaining_demand = requests[i].processing_demand)

\* A node that admitted one request while it held work, or admitted one and
\* rejected another.
C5_Witness ==
    /\ config.scheduler = "SLA-DWP-Fog"
    /\ \E i, j \in Ids :
         /\ outcome[i] = "admitted"
         /\ outcome[j] = "admission_rejected"
         /\ requests[i].assigned_fog_id = requests[j].assigned_fog_id
         /\ requests[i].remaining_demand > 0
         /\ requests[i].remaining_demand < requests[i].processing_demand

(***************************************************************************)
(* C6.  Under each of the four policies, the data_size of the requests a   *)
(* node accepts within one step sums to at most link_capacity * dt.        *)
(***************************************************************************)
\* The data a node accepted from the batch of the step in progress.
AcceptedData(n) ==
    LET acc == {i \in Ids : /\ requests[i].arrival_time = time
                            /\ outcome[i] = "admitted"
                            /\ requests[i].assigned_fog_id = n}
    IN  SumOver(acc, [i \in acc |-> requests[i].data_size])

C6_LinkBudget ==
    \A n \in Nodes :
        (nodes[n].link_capacity # None /\ pc \in {"route", "process"})
        => AcceptedData(n) <= nodes[n].link_capacity * config.time_step

\* The same bound for the three policies other than SLA-DWP-Fog.
C6_LinkBudgetQueuePolicies ==
    config.scheduler # "SLA-DWP-Fog" => C6_LinkBudget

(***************************************************************************)
(* Vocabulary of the ordering properties.                                  *)
(***************************************************************************)
\* Request i is touched by a step: its remaining_demand is reduced or its
\* start_time is set.
Touched(i) ==
    \/ requests'[i].remaining_demand < requests[i].remaining_demand
    \/ (requests[i].start_time = None /\ requests'[i].start_time # None)

\* The node a routed request was sent to.
NodeOf(i) == requests[i].assigned_fog_id

(***************************************************************************)
(* C7.  Under Static-Priority a request waits in the priority queue of its *)
(* class, and no request is touched while the node's queue of a higher     *)
(* class is non-empty: class 3 is drained before class 2, class 2 before   *)
(* class 1.                                                                *)
(***************************************************************************)
C7_StaticPriorityOrder ==
    /\ [](config.scheduler = "STATIC_PRIORITY" =>
            \A n \in Nodes : \A c \in 1..3 :
                \A i \in Range(nodes[n][PrioField(c)]) : requests[i].priority_class = c)
    /\ [][config.scheduler = "STATIC_PRIORITY" =>
            \A i \in Ids : Touched(i) =>
                \A c \in 1..3 :
                    c > requests[i].priority_class
                    => nodes[NodeOf(i)][PrioField(c)] = <<>>]_vars

\* One call finished a class-3 request and went on to serve a lower class.
C7_Witness ==
    /\ config.scheduler = "STATIC_PRIORITY"
    /\ pc = "process" /\ cur_node \in Nodes
    /\ \E i \in Range(completed) : requests[i].priority_class = 3
    /\ \E j \in 1..Len(entry_requests) :
         /\ requests[j].priority_class < 3
         /\ requests[j].assigned_fog_id = cur_node
         /\ requests[j].remaining_demand < entry_requests[j].remaining_demand

(***************************************************************************)
(* C8.  Under Emergency-First the emergency queue holds exactly the        *)
(* queued requests with is_emergency true, the normal queue the others,    *)
(* and no non-emergency request is touched while the node's emergency      *)
(* queue is non-empty.                                                     *)
(***************************************************************************)
C8_EmergencyFirstOrder ==
    /\ [](config.scheduler = "EMERGENCY_FIRST" =>
            \A n \in Nodes :
                /\ \A i \in Range(nodes[n].emergency_queue) : requests[i].is_emergency
                /\ \A i \in Range(nodes[n].normal_queue) : ~requests[i].is_emergency)
    /\ [][config.scheduler = "EMERGENCY_FIRST" =>
            \A i \in Ids : (Touched(i) /\ ~requests[i].is_emergency) =>
                nodes[NodeOf(i)].emergency_queue = <<>>]_vars

\* One call finished an emergency request and went on to the normal queue,
\* where a class-2 request waited.
C8_Witness ==
    /\ config.scheduler = "EMERGENCY_FIRST"
    /\ pc = "process" /\ cur_node \in Nodes
    /\ \E i \in Range(completed) : requests[i].is_emergency
    /\ \E j \in 1..Len(entry_requests) :
         /\ ~requests[j].is_emergency
         /\ requests[j].assigned_fog_id = cur_node
         /\ requests[j].remaining_demand < entry_requests[j].remaining_demand

(***************************************************************************)
(* C9.  Requests are admitted in the order of their ids.  Under FIFO the   *)
(* requests of one node complete in admission order; under Emergency-First *)
(* and Static-Priority so do two requests of one node that wait in the     *)
(* same queue: the earlier one never completes later than the later one,   *)
(* is never still unfinished when the later one has completed, and comes   *)
(* first in the list a call returns.                                       *)
(***************************************************************************)
\* Requests i and j wait in the same queue of the same node.
SameQueue(i, j) ==
    /\ outcome[i] = "admitted" /\ outcome[j] = "admitted"
    /\ NodeOf(i) = NodeOf(j)
    /\ CASE config.scheduler = "FIFO" -> TRUE
         [] config.scheduler = "EMERGENCY_FIRST" ->
                requests[i].is_emergency = requests[j].is_emergency
         [] config.scheduler = "STATIC_PRIORITY" ->
                requests[i].priority_class = requests[j].priority_class
         [] OTHER -> FALSE

C9_CompletionOrder ==
    /\ \A i, j \in Ids :
         (i < j /\ SameQueue(i, j) /\ requests[j].completion_time # None)
         => /\ requests[i].completion_time # None
            /\ requests[i].completion_time <= requests[j].completion_time
    /\ \A p, q \in 1..Len(completed) :
         (p < q /\ SameQueue(completed[p], completed[q]))
         => completed[p] < completed[q]
    /\ \A p, q \in 1..Len(all_completed) :
         (p < q /\ SameQueue(all_completed[p], all_completed[q]))
         => all_completed[p] < all_completed[q]

\* A FIFO node that completed two requests of different classes in
\* different steps, the lower class first.
C9_Witness ==
    /\ config.scheduler = "FIFO"
    /\ \E i, j \in Ids :
         /\ i < j /\ SameQueue(i, j)
         /\ requests[i].priority_class < requests[j].priority_class
         /\ requests[j].completion_time # None
         /\ requests[i].completion_time < requests[j].completion_time

\* A call that returns two completions of one queue.
C9_ReturnsTwo ==
    /\ Len(completed) >= 2
    /\ SameQueue(completed[1], completed[2])

\* A queue of Emergency-First or Static-Priority that completed two requests
\* in different steps.
C9_ClassQueueTwoSteps ==
    /\ config.scheduler \in {"EMERGENCY_FIRST", "STATIC_PRIORITY"}
    /\ \E i, j \in Ids :
         /\ i < j /\ SameQueue(i, j)
         /\ requests[j].completion_time # None
         /\ requests[i].completion_time < requests[j].completion_time

(***************************************************************************)
(* C10.  A request with demand D that is the only one its node ever        *)
(* admitted, arriving at t0 at a node with budget B = cpu_capacity * dt:   *)
(* at the boundary after k steps its remaining_demand is D - k*B, or 0     *)
(* once k >= ceil(D/B); its completion_time is then t0 + ceil(D/B) * dt    *)
(* and unset before; while unfinished it is the head of its queue (the     *)
(* in-service request under SLA-DWP-Fog).                                  *)
(***************************************************************************)
\* Request i is the only request its node has admitted.
AloneOnNode(i) ==
    /\ outcome[i] = "admitted"
    /\ \A j \in Ids \ {i} : ~(outcome[j] = "admitted" /\ NodeOf(j) = NodeOf(i))

\* ceil(D / B) for positive integers.
CeilDiv(D, B) == (D + B - 1) \div B

C10_CarryOver ==
    AtStepBoundary =>
        \A i \in Ids : AloneOnNode(i) =>
            LET D  == requests[i].processing_demand
                B  == Budget(NodeOf(i))
                dt == config.time_step
                t0 == requests[i].arrival_time
                k  == (time - t0) \div dt
                K  == CeilDiv(D, B)
            IN  /\ (time - t0) % dt = 0
                /\ k < K =>
                     /\ requests[i].remaining_demand = D - k * B
                     /\ requests[i].completion_time = None
                     /\ k >= 1 =>
                          \/ InService(NodeOf(i), i)
                          \/ \E f \in QueueFields :
                                /\ nodes[NodeOf(i)][f] # <<>>
                                /\ Head(nodes[NodeOf(i)][f]) = i
                /\ k >= K =>
                     /\ requests[i].remaining_demand = 0
                     /\ requests[i].completion_time = t0 + K * dt

\* D = 5, B = 2, t0 = 0: completion_time 3 after steps that took 2, 2, 1.
C10_Witness ==
    /\ AtStepBoundary
    /\ \E i \in Ids :
         /\ AloneOnNode(i)
         /\ requests[i].processing_demand = 5
         /\ Budget(NodeOf(i)) = 2
         /\ requests[i].arrival_time = 0
         /\ requests[i].completion_time = 3

(***************************************************************************)
(* Vocabulary of the SLA-DWP-Fog properties.                               *)
(***************************************************************************)
\* Equality of two rationals, whatever their representation.
REq(x, y) == x[1] * y[2] = y[1] * x[2]

\* x lies in [0, 1].
InUnitInterval(x) == RLe(<<0, 1>>, x) /\ RLe(x, <<1, 1>>)

SlaRun == config.scheduler = "SLA-DWP-Fog"

(***************************************************************************)
(* C11.  In every state, on every node, alpha + beta + gamma = 1 and each  *)
(* of the three weights lies in [0, 1] (eps > 0).                          *)
(***************************************************************************)
C11_WeightsNormalized ==
    \A n \in Nodes :
        /\ REq(RAdd(RAdd(nodes[n].alpha, nodes[n].beta), nodes[n].gamma), <<1, 1>>)
        /\ InUnitInterval(nodes[n].alpha)
        /\ InUnitInterval(nodes[n].beta)
        /\ InUnitInterval(nodes[n].gamma)

\* A node whose window update moved the weights away from 1/3 each.
C11_Witness ==
    /\ SlaRun
    /\ \E n \in Nodes :
         /\ nodes[n].last_window_update > 0
         /\ ~REq(nodes[n].alpha, <<1, 3>>)
         /\ ~REq(nodes[n].beta, nodes[n].gamma)

(***************************************************************************)
(* The SLA loop of process_one_step on a node whose class queues were      *)
(* filled over the last SelectHorizon seconds.  Request 1 is in service    *)
(* with one unit left; requests 2.. wait in the class queues, in admission *)
(* order within a class.  The node's weights are the initial ones or ones  *)
(* a window update produced.                                               *)
(***************************************************************************)
MaxCandidates == 2
SelectHorizon == 3

\* The (priority_class, arrival_time, relative_deadline_s) a waiting request
\* may have at time t.
SelectPool(t) ==
    [priority_class : 1..3, arrival_time : 0..t, relative_deadline_s : {2, 4}]

\* The waiting lists at time t: at most MaxCandidates requests, in order of
\* arrival.
SelectLists(t) ==
    {s \in UNION {[1..n -> SelectPool(t)] : n \in 1..MaxCandidates} :
        \A i \in 1..(Len(s) - 1) : s[i].arrival_time <= s[i + 1].arrival_time}

SelectWeights == {<<Rat(1, 3), Rat(1, 3), Rat(1, 3)>>, <<Rat(1, 5), Rat(3, 5), Rat(1, 5)>>}

SelectConfig ==
    CHOOSE c \in Configs :
        /\ c.scheduler = "SLA-DWP-Fog" /\ c.time_step = 1
        /\ c.fog_link_capacity = None /\ c.fog_max_queue_length = None

\* A request of the waiting list, admitted by node 1.
SelectRequest(p) ==
    [NewRequest([processing_demand |-> 1, data_size |-> 1,
                 is_emergency |-> p.priority_class = 3,
                 priority_class |-> p.priority_class,
                 relative_deadline_s |-> p.relative_deadline_s],
                NodePosition(1), p.arrival_time)
        EXCEPT !.assigned_fog_id = 1]

\* The in-service request: admitted at time 0, started, one unit left.
SelectInService ==
    [SelectRequest([priority_class |-> 3, arrival_time |-> 0,
                    relative_deadline_s |-> 4])
        EXCEPT !.processing_demand = 3, !.remaining_demand = 1, !.start_time = 0]

\* The ids of the requests of class c in reqs, in id order, in-service
\* request excluded.
ClassQueue(reqs, c) ==
    LET IsClass(i) == reqs[i].priority_class = c
    IN  SelectSeq([i \in 1..(Len(reqs) - 1) |-> i + 1], IsClass)

InitSelect ==
    /\ config = SelectConfig
    /\ time \in 0..SelectHorizon
    /\ \E s \in SelectLists(time) :
         requests = <<SelectInService>> \o [i \in 1..Len(s) |-> SelectRequest(s[i])]
    /\ outcome = [i \in 1..Len(requests) |-> "admitted"]
    /\ new_requests = <<>>
    /\ \E w \in SelectWeights :
         nodes = [n \in Nodes |->
                    IF n = 1
                    THEN [NewFogNode(config) EXCEPT
                            !.dynamic_queue_3 = ClassQueue(requests, 3),
                            !.dynamic_queue_2 = ClassQueue(requests, 2),
                            !.dynamic_queue_1 = ClassQueue(requests, 1),
                            !.current_request = 1,
                            !.alpha = w[1], !.beta = w[2], !.gamma = w[3]]
                    ELSE NewFogNode(config)]
    /\ metrics = [NewMetrics EXCEPT !.total_generated = Len(requests),
                                    !.total_admitted = Len(requests)]
    /\ pc = "process"
    /\ cur_node = 1
    /\ ppc = "sla_loop"
    /\ capacity_left = nodes[1].cpu_capacity * config.time_step
    /\ completed = <<>>
    /\ all_completed = <<>>
    /\ entry_requests = requests

NextSelect ==
    \/ SlaIteration
    \/ SlaLoopExit
    \/ SlaWindowUpdate

SelectSpec == InitSelect /\ [][NextSelect]_vars

(***************************************************************************)
(* C12.  Whenever the SLA loop takes a request out of the class queues at  *)
(* time t, no candidate has a larger score; no candidate of equal score    *)
(* has a smaller slack; no candidate of equal score and slack has a larger *)
(* wait; and every candidate that precedes the selected one in the order   *)
(* class-3, class-2, class-1 queue, front to back, is strictly worse in    *)
(* that lexicographic order.                                               *)
(***************************************************************************)
\* Candidate i is strictly preferred to candidate j by node n at the
\* current time.
Preferred(n, i, j) ==
    LET score_i == priority_score(nodes[n], requests[i], time)
        score_j == priority_score(nodes[n], requests[j], time)
        slack_i == requests[i].absolute_deadline - time
        slack_j == requests[j].absolute_deadline - time
        wait_i  == time - requests[i].arrival_time
        wait_j  == time - requests[j].arrival_time
    IN  \/ RLt(score_j, score_i)
        \/ REq(score_i, score_j) /\ slack_i < slack_j
        \/ REq(score_i, score_j) /\ slack_i = slack_j /\ wait_i > wait_j

\* The position of request i in the sequence q.
PositionIn(q, i) == CHOOSE p \in 1..Len(q) : q[p] = i

\* The step takes request r out of the class queues of the node in process.
Selects(r) ==
    /\ pc = "process" /\ cur_node \in Nodes
    /\ r \in Range(sla_candidates(nodes[cur_node]))
    /\ nodes'[cur_node].current_request = r

C12_SelectionIsArgmax ==
    [][\A r \in Ids : Selects(r) =>
          LET cands == sla_candidates(nodes[cur_node]) IN
          \A c \in Range(cands) \ {r} :
              /\ ~Preferred(cur_node, c, r)
              /\ PositionIn(cands, c) < PositionIn(cands, r)
                    => Preferred(cur_node, r, c)]_vars

\* A class-1 request was selected over a waiting class-2 request of equal
\* score and equal slack because it has waited longer.
C12_Witness ==
    /\ pc = "process" /\ ppc = "sla_loop" /\ cur_node \in Nodes
    /\ LET r == nodes[cur_node].current_request IN
       /\ r # None
       /\ requests[r].start_time = time
       /\ requests[r].priority_class = 1
       /\ \E c \in Range(nodes[cur_node].dynamic_queue_2) :
            /\ REq(priority_score(nodes[cur_node], requests[c], time),
                   priority_score(nodes[cur_node], requests[r], time))
            /\ requests[c].absolute_deadline = requests[r].absolute_deadline
            /\ requests[c].arrival_time > requests[r].arrival_time

\* A request was selected over an earlier candidate of equal score because
\* its slack is smaller.
C12_SlackDecides ==
    /\ pc = "process" /\ ppc = "sla_loop" /\ cur_node \in Nodes
    /\ LET r == nodes[cur_node].current_request IN
       /\ r # None
       /\ requests[r].start_time = time
       /\ \E c \in Range(sla_candidates(nodes[cur_node])) :
            /\ c < r
            /\ requests[c].priority_class = requests[r].priority_class
            /\ REq(priority_score(nodes[cur_node], requests[c], time),
                   priority_score(nodes[cur_node], requests[r], time))
            /\ requests[c].absolute_deadline > requests[r].absolute_deadline

(***************************************************************************)
(* C13.  Under SLA-DWP-Fog the in-service slot is non-preemptive: in every *)
(* step, a node's current request stays its current request unless the     *)
(* step completes it, and it is never put back into a class queue.         *)
(***************************************************************************)
C13_NonPreemptive ==
    [][\A n \in Nodes :
          LET c == nodes[n].current_request IN
          c # None =>
              /\ nodes'[n].current_request = c
                    \/ requests'[c].completion_time # None
              /\ ~\E f \in QueueFields : c \in Range(nodes'[n][f])]_vars

\* The same statement for the steps of process_one_step alone.
C13_ProcessingKeepsCurrent ==
    [][pc = "process" =>
          \A n \in Nodes :
              LET c == nodes[n].current_request IN
              c # None =>
                  /\ nodes'[n].current_request = c
                        \/ requests'[c].completion_time # None
                  /\ ~\E f \in QueueFields : c \in Range(nodes'[n][f])]_vars

(***************************************************************************)
(* C14.  Under every policy start_time is assigned at most once; a request *)
(* whose remaining_demand was reduced has its start_time set; and the      *)
(* operation that sets start_time (enqueue_request or a call of            *)
(* process_one_step) also reduces the request's remaining_demand.          *)
(***************************************************************************)
\* start_time, once set, keeps its value.
StartTimeSetOnce ==
    \A i \in Ids :
        requests[i].start_time # None => requests'[i].start_time = requests[i].start_time

\* No request has received capacity with start_time unset.
ServedImpliesStarted ==
    \A i \in Ids :
        requests[i].remaining_demand < requests[i].processing_demand
        => requests[i].start_time # None

\* enqueue_request (the routing step) sets no start_time.
EnqueueStartsNothing ==
    pc = "route" =>
        \A i \in Ids : requests[i].start_time = None => requests'[i].start_time = None

\* At the return of process_one_step, every request the call started has
\* received capacity in the call.
StartedInCallWasServed ==
    (pc = "process" /\ ppc = "return") =>
        \A i \in 1..Len(entry_requests) :
            (entry_requests[i].start_time = None /\ requests[i].start_time # None)
            => requests[i].remaining_demand < entry_requests[i].remaining_demand

C14_StartTimeAtFirstService ==
    /\ [][StartTimeSetOnce]_vars
    /\ []ServedImpliesStarted
    /\ [][EnqueueStartsNothing]_vars
    /\ []StartedInCallWasServed

\* The two halves of the statement that hold under SLA-DWP-Fog as well.
C14_SetOnceAndBeforeService ==
    [][StartTimeSetOnce]_vars /\ []ServedImpliesStarted

\* The whole statement for FIFO, Emergency-First and Static-Priority.
C14_QueuePolicies ==
    /\ [][~SlaRun => StartTimeSetOnce /\ EnqueueStartsNothing]_vars
    /\ [](~SlaRun => ServedImpliesStarted /\ StartedInCallWasServed)

(***************************************************************************)
(* C15.  Under every policy completion_time is assigned at most once: a    *)
(* request with completion_time set is in no queue and not in service, its *)
(* completion_time and remaining_demand never change again, and a request  *)
(* enters the list of completions of a call only in the step that sets its *)
(* completion_time.  When set, completion_time >= arrival_time.            *)
(***************************************************************************)
\* Request i is complete.
Completed(i) == requests[i].completion_time # None

C15_CompletedOnce ==
    /\ [](\A i \in Ids : Completed(i) =>
            /\ requests[i].completion_time >= requests[i].arrival_time
            /\ \A n \in Nodes : ~HeldBy(n, i))
    /\ [][\A i \in Ids : Completed(i) =>
            /\ requests'[i].completion_time = requests[i].completion_time
            /\ requests'[i].remaining_demand = requests[i].remaining_demand]_vars
    /\ [][Len(completed') > Len(completed) =>
            LET r == completed'[Len(completed')] IN
            /\ ~Completed(r)
            /\ requests'[r].completion_time # None
            /\ r \notin Range(completed)]_vars

\* A node goes on serving a request in a step after another of its requests
\* completed.
C15_Witness ==
    /\ pc = "process" /\ cur_node \in Nodes
    /\ \E i, j \in Ids :
         /\ i # j
         /\ NodeOf(i) = cur_node /\ NodeOf(j) = cur_node
         /\ Completed(i) /\ requests[i].completion_time <= time
         /\ requests[j].remaining_demand < entry_requests[j].remaining_demand

(***************************************************************************)
(* C16.  In every state of Simulation.run total_admitted >=                *)
(* total_completed, and every request that process_one_step returns as     *)
(* completed (or that has a completion_time) was counted as admitted.      *)
(***************************************************************************)
C16_CompletedWereAdmitted ==
    /\ metrics.total_admitted >= metrics.total_completed
    /\ \A i \in Ids : Completed(i) => outcome[i] = "admitted"
    /\ \A i \in Range(completed) \cup Range(all_completed) : outcome[i] = "admitted"
    /\ metrics.total_completed + Len(all_completed)
          + (IF pc = "process" THEN Len(completed) ELSE 0)
       = Cardinality({i \in Ids : Completed(i)})

\* Every admitted request has completed and been counted, while another
\* request was turned away.
C16_Witness ==
    /\ metrics.total_completed >= 1
    /\ metrics.total_completed = metrics.total_admitted
    /\ metrics.total_generated > metrics.total_admitted

(***************************************************************************)
(* C17.  Under SLA-DWP-Fog the deadline prediction is tested before the    *)
(* queue length: a request that reaches enqueue_request and whose          *)
(* predicted finish exceeds its deadline is classified admission_rejected, *)
(* also when the node is at max_queue_length.                              *)
(***************************************************************************)
\* The step classifies request i after a call of enqueue_request.
Enqueues(i) ==
    /\ outcome[i] = "new"
    /\ outcome'[i] \in {"admitted", "admission_rejected", "queue_full"}

C17_DeadlineTestFirst ==
    [][\A i \in Ids :
          (SlaRun /\ Enqueues(i)
           /\ FinishOverrun(requests'[i].assigned_fog_id, i) > 0)
          => outcome'[i] = "admission_rejected"]_vars

\* What the program does instead: the queue-length test comes first, so
\* such a request is classified queue_full exactly when the node is full.
C17_QueueTestFirst ==
    [][\A i \in Ids :
          (SlaRun /\ Enqueues(i))
          => LET n == requests'[i].assigned_fog_id
                 full == /\ nodes[n].max_queue_length # None
                         /\ HeldCount(n) >= nodes[n].max_queue_length
             IN  /\ outcome'[i] = "queue_full" <=> full
                 /\ outcome'[i] = "admission_rejected"
                       <=> (~full /\ FinishOverrun(n, i) > 0)]_vars

(***************************************************************************)
(* C18.  Under FIFO, Emergency-First and Static-Priority a request is      *)
(* dropped as link_capacity exactly when it does not fit the step's link   *)
(* budget; a request that fits is refused exactly when max_queue_length is *)
(* bounded and the node already holds max_queue_length requests, with      *)
(* reason queue_full, and is admitted otherwise; no request is ever        *)
(* classified admission_rejected and total_rejected stays 0.               *)
(***************************************************************************)
\* Request i fits the link budget node n has left in the step in progress.
LinkFeasible(n, i) ==
    \/ nodes[n].link_capacity = None
    \/ AcceptedData(n) + requests[i].data_size
          <= nodes[n].link_capacity * config.time_step

\* Node n holds as many requests as max_queue_length allows.
AtQueueBound(n) ==
    /\ nodes[n].max_queue_length # None
    /\ HeldCount(n) = nodes[n].max_queue_length

C18_QueuePoliciesRejectOnlyWhenFull ==
    /\ [](~SlaRun =>
            /\ metrics.total_rejected = 0
            /\ metrics.dropped_by_reason["admission_rejected"] = 0
            /\ \A i \in Ids : outcome[i] # "admission_rejected")
    /\ [][\A i \in Ids :
            (~SlaRun /\ outcome[i] = "new" /\ outcome'[i] # "new") =>
                LET n == requests'[i].assigned_fog_id IN
                /\ outcome'[i] = "link_capacity" <=> ~LinkFeasible(n, i)
                /\ outcome'[i] = "queue_full"
                      <=> (LinkFeasible(n, i) /\ AtQueueBound(n))
                /\ outcome'[i] = "admitted"
                      <=> (LinkFeasible(n, i) /\ ~AtQueueBound(n))]_vars

\* A node with a bounded queue that admitted one request and refused the
\* next as queue_full.
C18_Witness ==
    /\ ~SlaRun
    /\ \E i, j \in Ids :
         /\ outcome[i] = "admitted" /\ outcome[j] = "queue_full"
         /\ NodeOf(i) = NodeOf(j)
         /\ nodes[NodeOf(i)].max_queue_length # None

\* With no queue bound, a step in which one request was refused for the
\* link and another admitted.
C18_UnboundedAdmitsFeasible ==
    /\ ~SlaRun
    /\ config.fog_max_queue_length = None
    /\ \E i, j \in Ids :
         /\ outcome[i] = "admitted" /\ outcome[j] = "link_capacity"
         /\ NodeOf(i) = NodeOf(j)

(***************************************************************************)
(* C19.  Under SLA-DWP-Fog the window update of a node runs in the call of *)
(* process_one_step at time t exactly when t minus the time of the node's  *)
(* previous update (initially 0) is at least TW: the time of the last      *)
(* update and the weights change in no other step, two updates are at      *)
(* least TW apart, and with dt < TW there are calls without an update.     *)
(***************************************************************************)
\* The weights and multipliers of node n.
SlaWeights(n) ==
    <<nodes[n].alpha, nodes[n].beta, nodes[n].gamma,
      nodes[n].lambda_1, nodes[n].lambda_2, nodes[n].lambda_3>>

\* The window update of node n is due at the current time.
UpdateDue(n) == time - nodes[n].last_window_update >= config.sla_window_TW

C19_UpdateEveryWindow ==
    /\ [](\A n \in Nodes : nodes[n].last_window_update <= time)
    /\ [][\A n \in Nodes :
            LET at_window == pc = "process" /\ ppc = "sla_window" /\ cur_node = n IN
            /\ (at_window /\ UpdateDue(n)) => nodes'[n].last_window_update = time
            /\ ~(at_window /\ UpdateDue(n)) =>
                  /\ nodes'[n].last_window_update = nodes[n].last_window_update
                  /\ SlaWeights(n)' = SlaWeights(n)
            /\ nodes'[n].last_window_update # nodes[n].last_window_update =>
                  nodes'[n].last_window_update - nodes[n].last_window_update
                      >= config.sla_window_TW]_vars

\* dt = 1 < TW = 2: the call at time 3 ends without an update, the last one
\* being that of time 2, which changed the weights.
C19_Witness ==
    /\ SlaRun /\ config.time_step < config.sla_window_TW
    /\ pc = "process" /\ ppc = "return" /\ cur_node \in Nodes
    /\ time = 3
    /\ nodes[cur_node].last_window_update = 2
    /\ ~REq(nodes[cur_node].alpha, <<1, 3>>)

(***************************************************************************)
(* The window update of process_one_step on a node at its second window    *)
(* boundary (time 2 * TW, previous update at TW, dt = 1), for completion   *)
(* histories made of a few kinds of completed requests.                    *)
(***************************************************************************)
MaxPerKind == 4

\* (priority_class, arrival_time, relative_deadline_s, completion_time) of
\* the completed requests a history is made of, in order of completion: one
\* before the window, then class 2, class 3 late, class 1, class 3 in time,
\* class 1 slow.
WindowKinds ==
    << <<3, 0, 2, 1>>, <<2, 2, 3, 3>>, <<3, 1, 2, 4>>,
       <<1, 2, 6, 4>>, <<3, 3, 2, 5>>, <<1, 0, 6, 5>> >>

\* How many requests of each kind a history may hold.
WindowCounts ==
    {k \in [1..6 -> 0..MaxPerKind] :
        k[1] <= 1 /\ k[2] <= 1 /\ k[3] <= 2 /\ k[4] <= 2 /\ k[6] <= 1}

\* A completed request of kind k.
WindowRequest(k) ==
    [SelectRequest([priority_class |-> k[1], arrival_time |-> k[2],
                    relative_deadline_s |-> k[3]])
        EXCEPT !.remaining_demand = 0, !.start_time = k[4] - 1,
               !.completion_time = k[4]]

\* The requests of a history with counts[j] requests of kind j.
RECURSIVE WindowHistory(_, _)
WindowHistory(counts, j) ==
    IF j = 0 THEN <<>>
    ELSE WindowHistory(counts, j - 1)
         \o [i \in 1..counts[j] |-> WindowRequest(WindowKinds[j])]

\* The multipliers the node may have after its first update.
WindowLambdas == {<<Rat(0, 1), Rat(0, 1), Rat(0, 1)>>, <<Rat(1, 4), Rat(1, 2), Rat(0, 1)>>}

InitWindow ==
    /\ \E eta1 \in {Rat(1, 2), Rat(1, 50)} :
         config = [SelectConfig EXCEPT !.sla_eta1 = eta1,
                                       !.sim_time = 2 * SelectConfig.sla_window_TW + 1]
    /\ time = 2 * config.sla_window_TW
    /\ \E counts \in WindowCounts : requests = WindowHistory(counts, 6)
    /\ outcome = [i \in 1..Len(requests) |-> "admitted"]
    /\ new_requests = <<>>
    /\ completed = SelectSeq([i \in 1..Len(requests) |-> i],
                             LAMBDA i : requests[i].completion_time = time + 1)
    /\ \E l \in WindowLambdas :
         nodes = [n \in Nodes |->
                    IF n = 1
                    THEN normalize_weights(
                           [NewFogNode(config) EXCEPT
                              !.completed_history = [i \in 1..Len(requests) |-> i],
                              !.last_window_update = config.sla_window_TW,
                              !.lambda_1 = l[1], !.lambda_2 = l[2],
                              !.lambda_3 = l[3]],
                           config.sla_eps)
                    ELSE NewFogNode(config)]
    /\ metrics = [NewMetrics EXCEPT
                    !.total_generated = Len(requests),
                    !.total_admitted = Len(requests),
                    !.total_completed = Len(requests) - Len(completed)]
    /\ pc = "process"
    /\ cur_node = 1
    /\ ppc = "sla_window"
    /\ capacity_left = 0
    /\ all_completed = <<>>
    /\ entry_requests = requests

NextWindow ==
    \/ SlaWindowUpdate
    \/ ReturnCompleted

WindowSpec == InitWindow /\ [][NextWindow]_vars

(***************************************************************************)
(* C20.  A window update of a node whose window (the completions of its    *)
(* history with completion_time >= t - TW) is not empty sets, for k in     *)
(* 1..3, lambda_k to max(0, lambda_k + eta_k * (J_k - J_k_max)), where J1  *)
(* is the fraction of the window's class-3 completions that missed their   *)
(* deadline (0 if there is none), J2 the mean latency of the window and J3 *)
(* the mean class-1 latency over the mean class-3 latency (1 if either     *)
(* class is absent); with an empty window the multipliers keep their       *)
(* values.                                                                 *)
(***************************************************************************)
\* The window of node n at the current time, as a set of request ids.
WindowOf(n) ==
    {i \in Range(nodes[n].completed_history) :
        /\ requests[i].completion_time # None
        /\ requests[i].completion_time >= time - config.sla_window_TW}

\* The mean latency of the non-empty set s of completed requests.
MeanLatencyOf(s) ==
    Rat(SumOver(s, [i \in s |-> requests[i].completion_time
                                   - requests[i].arrival_time]),
        Cardinality(s))

MeasuredJ1(n) ==
    LET emer   == {i \in WindowOf(n) : requests[i].priority_class = 3}
        missed == {i \in emer :
                     requests[i].completion_time > requests[i].absolute_deadline}
    IN  IF emer = {} THEN Rat(0, 1) ELSE Rat(Cardinality(missed), Cardinality(emer))

MeasuredJ2(n) == MeanLatencyOf(WindowOf(n))

MeasuredJ3(n) ==
    LET emer   == {i \in WindowOf(n) : requests[i].priority_class = 3}
        normal == {i \in WindowOf(n) : requests[i].priority_class = 1}
    IN  IF emer = {} \/ normal = {} THEN Rat(1, 1)
        ELSE RDiv(MeanLatencyOf(normal), MeanLatencyOf(emer))

\* max(0, lambda + eta * (J - J_max))
DualStep(lambda, eta, J, J_max) ==
    LET moved == RAdd(lambda, RMul(eta, RSub(J, J_max)))
    IN  IF RLt(moved, Rat(0, 1)) THEN Rat(0, 1) ELSE moved

\* The step is a window update of node n that is due.
WindowUpdateOf(n) ==
    pc = "process" /\ ppc = "sla_window" /\ cur_node = n /\ UpdateDue(n)

C20_DualUpdate ==
    [][\A n \in Nodes : WindowUpdateOf(n) =>
          IF WindowOf(n) = {}
          THEN SlaWeights(n)' = SlaWeights(n)
          ELSE /\ REq(nodes'[n].lambda_1,
                      DualStep(nodes[n].lambda_1, config.sla_eta1,
                               MeasuredJ1(n), config.sla_J1_max))
               /\ REq(nodes'[n].lambda_2,
                      DualStep(nodes[n].lambda_2, config.sla_eta2,
                               MeasuredJ2(n), config.sla_J2_max_s))
               /\ REq(nodes'[n].lambda_3,
                      DualStep(nodes[n].lambda_3, config.sla_eta3,
                               MeasuredJ3(n), config.sla_J3_max))]_vars

\* J1 = 1/5 (one of five class-3 completions late) against J1_max = 1/10
\* with eta1 = 1/50 has raised lambda_1 from 0 to 1/500, next to a request
\* completed before the window.
C20_Witness ==
    /\ pc = "process" /\ ppc = "return" /\ cur_node = 1
    /\ nodes[1].last_window_update = time
    /\ config.sla_eta1 = Rat(1, 50) /\ config.sla_J1_max = Rat(1, 10)
    /\ MeasuredJ1(1) = Rat(1, 5)
    /\ \E i \in Range(nodes[1].completed_history) : i \notin WindowOf(1)
    /\ nodes[1].lambda_1 = Rat(1, 500)

\* A multiplier was clamped at 0 while another grew, with both classes
\* present in J3.
C20_ClampedAndRaised ==
    /\ pc = "process" /\ ppc = "return" /\ cur_node = 1
    /\ nodes[1].last_window_update = time
    /\ \E i, j \in WindowOf(1) :
          requests[i].priority_class = 3 /\ requests[j].priority_class = 1
    /\ RLt(MeasuredJ3(1), config.sla_J3_max)
    /\ nodes[1].lambda_3 = Rat(0, 1)
    /\ RLt(Rat(1, 2), nodes[1].lambda_2)

(***************************************************************************)
(* C21.  Determinism: every step of the engine and of each node is a       *)
(* function of the current state and of the arrivals the generator hands   *)
(* over.  From any reachable state, any two steps that agree on the        *)
(* generated requests lead to the same state, so two runs with the same    *)
(* configuration and the same arrival stream go through the same states    *)
(* and produce the same completions, drops and rejections step by step.    *)
(***************************************************************************)
\* What the generator fixes of each request.
GeneratedFields(reqs) ==
    [i \in 1..Len(reqs) |->
        <<reqs[i].source_position, reqs[i].arrival_time, reqs[i].processing_demand,
          reqs[i].data_size, reqs[i].is_emergency, reqs[i].priority_class,
          reqs[i].relative_deadline_s, reqs[i].absolute_deadline>>]

\* No second step with the same arrivals leads anywhere else.
NoOtherSuccessor ==
    \A successor \in {vars'} :
        ~ENABLED (/\ Next
                  /\ GeneratedFields(requests') = GeneratedFields(successor[4])
                  /\ vars' # successor)

\* The state after routing the head of new_requests, as a function of the
\* state before.
RoutedState ==
    LET r     == Head(new_requests)
        fog   == get_nearest_fog(requests[r].source_position)
        reqs1 == [requests EXCEPT ![r].assigned_fog_id = fog]
        ok    == can_accept_request(nodes[fog], reqs1[r], config.time_step)
        res   == enqueue_request(nodes[fog], reqs1, r, config.time_step)
        what  == IF ~ok THEN "link_capacity"
                 ELSE IF res.success THEN "admitted"
                 ELSE IF res.reason = "admission_rejected" THEN "admission_rejected"
                 ELSE "queue_full"
    IN  <<config, time, pc,
          IF ok THEN res.requests ELSE reqs1,
          [outcome EXCEPT ![r] = what],
          Tail(new_requests),
          IF ok THEN [nodes EXCEPT ![fog] = res.node] ELSE nodes,
          IF what = "admitted" THEN [metrics EXCEPT !.total_admitted = @ + 1]
          ELSE IF what = "admission_rejected" THEN record_rejected(metrics, what)
          ELSE record_dropped(metrics, what),
          cur_node, ppc, capacity_left, completed, all_completed, entry_requests>>

\* The state after one iteration of the SLA loop.
SlaIteratedState ==
    LET st == sla_iteration(nodes[cur_node], requests, capacity_left,
                            completed, time, config.time_step)
    IN  <<config, time, pc, st.requests, outcome, new_requests,
          [nodes EXCEPT ![cur_node] = st.node], metrics, cur_node,
          IF st.exit THEN "sla_window" ELSE "sla_loop",
          st.capacity_left, st.completed, all_completed, entry_requests>>

\* The state after the window update that ends the SLA branch.
SlaUpdatedState ==
    <<config, time, pc, requests, outcome, new_requests,
      [nodes EXCEPT ![cur_node] = sla_window_boundary(@, requests, time, config)],
      metrics, cur_node, "return", capacity_left, completed, all_completed,
      entry_requests>>

OthersUnserved(n) ==
    [i \in Ids |->
        IF NodeOf(i) = n THEN requests[i]
        ELSE [requests[i] EXCEPT !.remaining_demand = requests[i].processing_demand,
                                 !.start_time = None,
                                 !.completion_time = None]]

\* Every node but n, and every request that is neither i nor of node n, is
\* left as it was.
OnlyNodeChanges(n, i) ==
    /\ \A m \in Nodes \ {n} : nodes'[m] = nodes[m]
    /\ \A j \in Ids : (j # i /\ NodeOf(j) # n) => requests'[j] = requests[j]

C22_NodeIsolation ==
    [][/\ (pc = "generate" /\ time < config.sim_time) =>
            \A n \in Nodes : nodes'[n] = [nodes[n] EXCEPT !.current_link_load = 0]
       /\ (pc = "route" /\ new_requests # <<>>) =>
            LET r == Head(new_requests) IN
            OnlyNodeChanges(get_nearest_fog(requests[r].source_position), r)
       /\ (pc = "process" /\ cur_node \in Nodes) =>
            /\ OnlyNodeChanges(cur_node, 0)
            /\ \A i \in Range(completed') : requests'[i].assigned_fog_id = cur_node
            /\ (ppc = "sla_loop" /\ capacity_left > 0) =>
                 LET st == sla_iteration(nodes[cur_node], OthersUnserved(cur_node),
                                         capacity_left, completed, time,
                                         config.time_step)
                 IN  nodes'[cur_node] = st.node /\ completed' = st.completed
            /\ ppc = "sla_window" =>
                 nodes'[cur_node] =
                     sla_window_boundary(nodes[cur_node], OthersUnserved(cur_node),
                                         time, config)]_vars

\* The second node completes a request in its call while the first node,
\* already processed in this step, holds a request that was served.
C22_Witness ==
    /\ SlaRun
    /\ pc = "process" /\ cur_node = 2
    /\ completed # <<>>
    /\ \E i \in Ids : /\ HeldBy(1, i)
                      /\ requests[i].remaining_demand < requests[i].processing_demand

(***************************************************************************)
(* C23.  A dropped (link_capacity, queue_full) or rejected                 *)
(* (admission_rejected) request is terminal: it is in no queue, no         *)
(* in-service slot and no list of completions, it keeps its full demand    *)
(* and has no start or completion time, it is not in the batch still to be *)
(* routed, its classification never changes, and the attempt that failed   *)
(* left every queue and in-service slot of every node as it was.           *)
(***************************************************************************)
TurnedAway(i) == outcome[i] \in {"link_capacity", "queue_full", "admission_rejected"}

\* The queues and the in-service slot of node n.
Holdings(n) == <<[f \in QueueFields |-> nodes[n][f]], nodes[n].current_request>>

C23_FailureIsTerminal ==
    /\ [](\A i \in Ids : TurnedAway(i) =>
            /\ \A n \in Nodes : ~HeldBy(n, i) /\ i \notin Range(nodes[n].completed_history)
            /\ requests[i].remaining_demand = requests[i].processing_demand
            /\ requests[i].start_time = None
            /\ requests[i].completion_time = None
            /\ i \notin Range(new_requests)
            /\ i \notin Range(completed) \cup Range(all_completed))
    /\ [][\A i \in Ids :
            /\ TurnedAway(i) => outcome'[i] = outcome[i]
            /\ (~TurnedAway(i) /\ TurnedAway(i)') =>
                  /\ outcome[i] = "new" /\ Head(new_requests) = i
                  /\ \A n \in Nodes : Holdings(n)' = Holdings(n)]_vars

\* A request was turned away by a node that went on to complete another
\* request at a later time.
C23_Witness ==
    \E i, j \in Ids :
        /\ TurnedAway(i)
        /\ Completed(j)
        /\ NodeOf(i) = NodeOf(j)
        /\ requests[j].completion_time > requests[i].arrival_time

(***************************************************************************)
(* C24.  Simulation.run with a positive time step and a finite horizon     *)
(* terminates.  The clock starts at 0 and moves only by time_step, at the  *)
(* end of a step; a step runs only at a time strictly less than sim_time,  *)
(* every such multiple of time_step gets its step, and the run returns     *)
(* (and does nothing more) once the clock has reached sim_time.            *)
(***************************************************************************)
\* A step of the loop body is under way.
InStep == pc \in {"route", "process"}

\* The number of steps still to start: the multiples of time_step from the
\* clock on that are strictly less than sim_time.
StepsLeft ==
    IF time < config.sim_time
    THEN CeilDiv(config.sim_time - time, config.time_step)
    ELSE 0

\* The work left in the loop process_one_step is in: twice the requests
\* waiting in the queues it serves, plus one for a request in service (SLA)
\* or for unspent budget (head-of-queue loops).
LoopMeasure ==
    LET node == nodes[cur_node] IN
    IF ppc = "fifo" \/ ppc = "emergency" \/ ppc = "normal"
          \/ ppc \in {"class3", "class2", "class1"}
    THEN LET f == IF ppc = "fifo" THEN "queue"
                  ELSE IF ppc = "emergency" THEN "emergency_queue"
                  ELSE IF ppc = "normal" THEN "normal_queue"
                  ELSE PrioField(static_class(ppc))
         IN  2 * Len(node[f]) + (IF capacity_left > 0 THEN 1 ELSE 0)
    ELSE IF ppc = "sla_loop"
    THEN 2 * (Len(node.dynamic_queue_3) + Len(node.dynamic_queue_2)
                 + Len(node.dynamic_queue_1))
         + (IF node.current_request # None THEN 1 ELSE 0)
    ELSE 0

\* How many loops of process_one_step are still ahead, the current one
\* included.
LoopsAhead ==
    IF ppc = "class3" THEN 3
    ELSE IF ppc \in {"class2", "emergency", "sla_loop"} THEN 2
    ELSE IF ppc \in {"class1", "normal", "fifo", "sla_window"} THEN 1
    ELSE 0

LoopWeight == 2 * MaxRequests + 2
CallWeight == 4 * LoopWeight
ProcessWeight == (NumNodes + 1) * CallWeight
StepWeight == ProcessWeight + MaxRequests + 2

\* A bound on the number of transitions the run can still make.
Rank ==
    IF pc = "done" THEN 0
    ELSE IF pc = "generate" THEN StepsLeft * StepWeight + StepWeight - 1
    ELSE IF pc = "route"
    THEN StepsLeft * StepWeight + ProcessWeight + Len(new_requests)
    ELSE IF cur_node \in Nodes
    THEN StepsLeft * StepWeight + (NumNodes - cur_node + 1) * CallWeight
             + LoopsAhead * LoopWeight + LoopMeasure
    ELSE StepsLeft * StepWeight

\* The positions whose statement has no condition: routing the next request
\* of the batch, an iteration of the SLA loop, the window update.
AtUnconditionalStatement ==
    \/ pc = "route" /\ new_requests # <<>>
    \/ pc = "process" /\ ppc = "sla_loop" /\ capacity_left > 0
    \/ pc = "process" /\ ppc = "sla_window"

C24_RunTerminates ==
    /\ [](/\ time >= 0 /\ time % config.time_step = 0
          /\ Rank >= 0
          /\ InStep => time < config.sim_time
          /\ pc = "done" =>
               /\ time >= config.sim_time
               /\ time - config.time_step < config.sim_time
          /\ pc # "done" => (AtUnconditionalStatement \/ ENABLED Next))
    /\ [][/\ Rank' < Rank
          /\ time' # time =>
               /\ pc = "process" /\ pc' = "generate"
               /\ time' = time + config.time_step
          /\ (pc = "generate" /\ time < config.sim_time) => pc' = "route"
          /\ pc # "done"]_vars

\* The run has returned after more than two steps, with a completion.
C24_Witness ==
    /\ pc = "done"
    /\ time > 2 * config.time_step
    /\ metrics.total_completed >= 1

(***************************************************************************)
(* The routing of a batch whose source positions range over the whole city *)
(* grid: the engine is at the top of its loop over new_requests with a     *)
(* batch of two requests.                                                  *)
(***************************************************************************)
MaxX == 6
MaxY == 2

CityPositions == (0..MaxX) \X (0..MaxY)

InitNearest ==
    /\ config \in {c \in Configs : c.time_step = 1}
    /\ time = 0
    /\ pc = "route"
    /\ \E p1, p2 \in CityPositions : \E kind \in {EmergencyKind, NormalKind} :
         requests = <<NewRequest(EmergencyKind, p1, time), NewRequest(kind, p2, time)>>
    /\ outcome = <<"new", "new">>
    /\ new_requests = <<1, 2>>
    /\ nodes = [n \in Nodes |-> NewFogNode(config)]
    /\ metrics = record_generated(NewMetrics, 2)
    /\ cur_node = 0
    /\ ppc = "idle"
    /\ capacity_left = 0
    /\ completed = <<>>
    /\ all_completed = <<>>
    /\ entry_requests = <<>>

NextNearest == Route \/ BeginProcessing

NearestSpec == InitNearest /\ [][NextNearest]_vars

(***************************************************************************)
(* C25.  get_nearest_fog(position) returns a node at minimal Euclidean     *)
(* distance from position, the first such node in the order of the node    *)
(* list, and changes nothing: the routed request is sent to that node,     *)
(* every other node is as before, and so is the chosen node unless         *)
(* enqueue_request then changes it.                                        *)
(***************************************************************************)
C25_NearestNode ==
    [][(pc = "route" /\ new_requests # <<>>) =>
          LET r     == Head(new_requests)
              pos   == requests[r].source_position
              fog   == requests'[r].assigned_fog_id
              D(n)  == Dist2(NodePosition(n), pos)
          IN  /\ fog \in Nodes
              /\ \A m \in Nodes : D(fog) <= D(m)
              /\ \A m \in Nodes : m < fog => D(fog) < D(m)
              /\ \A m \in Nodes \ {fog} : nodes'[m] = nodes[m]
              /\ outcome'[r] = "link_capacity" => nodes' = nodes
              /\ outcome'[r] # "link_capacity" =>
                    nodes'[fog] = enqueue_request(nodes[fog], requests', r,
                                                  config.time_step).node
                    \/ nodes'[fog] = nodes[fog]]_vars

\* Both requests are routed: one from a position at the same distance from
\* both nodes, sent to the first node, one from a position strictly nearer
\* to the second node, sent there.
C25_Witness ==
    /\ new_requests = <<>>
    /\ \E i, j \in Ids :
         /\ Dist2(NodePosition(1), requests[i].source_position)
               = Dist2(NodePosition(2), requests[i].source_position)
         /\ requests[i].assigned_fog_id = 1
         /\ Dist2(NodePosition(2), requests[j].source_position)
               < Dist2(NodePosition(1), requests[j].source_position)
         /\ requests[j].assigned_fog_id = 2

(***************************************************************************)
(* Construction.  Simulation(config) followed by run(), for configurations *)
(* whose grid dimensions and arrival bound may be zero or negative.  The   *)
(* valid grid is the 2 x 1 grid of the topology above.                     *)
(***************************************************************************)
GridDimensions == {<<2, 1>>, <<0, 1>>, <<2, 0>>, <<-1, 1>>, <<2, -1>>, <<0, 0>>}

ArrivalBounds == {-1, 0, MaxRequests}

ConstructionConfigs ==
    {[c EXCEPT !.num_fog_nodes_x = d[1], !.num_fog_nodes_y = d[2],
               !.max_requests_per_step = m] :
        c \in {b \in Configs : /\ b.time_step = 1
                               /\ b.fog_link_capacity = None
                               /\ b.fog_max_queue_length = None},
        d \in GridDimensions, m \in ArrivalBounds}

InitConstruction ==
    /\ config \in ConstructionConfigs
    /\ time = 0
    /\ pc = "construct"
    /\ requests = <<>>
    /\ outcome = <<>>
    /\ new_requests = <<>>
    /\ nodes = <<>>
    /\ metrics = NewMetrics
    /\ cur_node = 0
    /\ ppc = "idle"
    /\ capacity_left = 0
    /\ completed = <<>>
    /\ all_completed = <<>>
    /\ entry_requests = <<>>

NextConstruction == Construct \/ Next

ConstructionSpec == InitConstruction /\ [][NextConstruction]_vars

(***************************************************************************)
(* C26.  With num_fog_nodes_x <= 0 or num_fog_nodes_y <= 0 the             *)
(* construction fails with an error: no node is ever created, no step is   *)
(* ever run, and nothing happens after the error.  With positive           *)
(* dimensions the construction creates num_fog_nodes_x * num_fog_nodes_y   *)
(* nodes and the run starts.                                               *)
(***************************************************************************)
BadGrid == config.num_fog_nodes_x <= 0 \/ config.num_fog_nodes_y <= 0

\* Nothing has run: the clock is at 0 and there is no request, no counter.
NothingRun ==
    /\ time = 0
    /\ requests = <<>>
    /\ metrics = NewMetrics

C26_BadGridFailsAtConstruction ==
    /\ [](BadGrid => /\ pc \in {"construct", "error"}
                     /\ nodes = <<>>
                     /\ NothingRun)
    /\ [][/\ pc # "error"
          /\ pc = "construct" =>
               IF BadGrid THEN pc' = "error"
               ELSE /\ pc' = "generate"
                    /\ Len(nodes') = config.num_fog_nodes_x * config.num_fog_nodes_y]_vars

\* The construction failed on a grid with a zero dimension although the
\* arrival bound is positive.
C26_Witness ==
    /\ pc = "error"
    /\ config.num_fog_nodes_x = 0 \/ config.num_fog_nodes_y = 0
    /\ config.max_requests_per_step > 0

(***************************************************************************)
(* C27.  With max_requests_per_step <= 0 the construction fails: the       *)
(* simulation never gets past the constructor, so no step is run.          *)
(***************************************************************************)
BadArrivalBound == config.max_requests_per_step <= 0

C27_BadArrivalBoundFailsAtConstruction ==
    BadArrivalBound => pc \in {"construct", "error"}

\* What the program does instead: with such a bound on a valid grid the run
\* goes through all its steps with empty batches.
C27_RunsWithoutArrivals ==
    (BadArrivalBound /\ ~BadGrid) =>
        /\ requests = <<>>
        /\ metrics.total_generated = 0
        /\ pc # "error"

\* The run with a non-positive arrival bound has returned its report.
C27_RunReturned ==
    /\ BadArrivalBound
    /\ pc = "done"
    /\ time >= config.sim_time

(***************************************************************************)
(* C28.  The weight update is idempotent: after _update_sla_weights_window *)
(* has been applied at a window boundary, applying it once more over the   *)
(* same window leaves lambda_1, lambda_2, lambda_3 and alpha, beta, gamma  *)
(* as they are.                                                            *)
(***************************************************************************)
\* The window update of node n has just been applied.
JustUpdated(n) ==
    /\ pc = "process" /\ ppc = "return" /\ cur_node = n
    /\ IsSla(nodes[n])
    /\ time > 0
    /\ nodes[n].last_window_update = time

\* The multipliers and weights of a node record.
WeightsOf(node) ==
    <<node.alpha, node.beta, node.gamma, node.lambda_1, node.lambda_2, node.lambda_3>>

\* Componentwise equality of two tuples of rationals.
SameRationals(a, b) ==
    /\ Len(a) = Len(b)
    /\ \A k \in 1..Len(a) : REq(a[k], b[k])

C28_UpdateIdempotent ==
    \A n \in Nodes : JustUpdated(n) =>
        SameRationals(WeightsOf(update_sla_weights_window(nodes[n], requests,
                                                          time, config)),
                      WeightsOf(nodes[n]))

\* What the program does instead: a further application moves every
\* multiplier by another eta_k * (J_k - J_k_max), clamped at 0.
C28_SecondUpdateIsAnotherStep ==
    \A n \in Nodes : (JustUpdated(n) /\ WindowOf(n) # {}) =>
        LET again == update_sla_weights_window(nodes[n], requests, time, config) IN
        /\ REq(again.lambda_1, DualStep(nodes[n].lambda_1, config.sla_eta1,
                                        MeasuredJ1(n), config.sla_J1_max))
        /\ REq(again.lambda_2, DualStep(nodes[n].lambda_2, config.sla_eta2,
                                        MeasuredJ2(n), config.sla_J2_max_s))
        /\ REq(again.lambda_3, DualStep(nodes[n].lambda_3, config.sla_eta3,
                                        MeasuredJ3(n), config.sla_J3_max))

(***************************************************************************)
(* C29.  At a window boundary with no completion in the trailing TW        *)
(* seconds the update is applied with J1 = 0, J2 = 0 and J3 = 1: each      *)
(* lambda_k becomes max(0, lambda_k + eta_k * (J_k - J_k_max)) and the     *)
(* weights are renormalised.                                               *)
(***************************************************************************)
\* (lambda_k + eps) / ((lambda_1 + eps) + (lambda_2 + eps) + (lambda_3 + eps))
NormalizedWeight(lambda, l1, l2, l3, eps) ==
    RDiv(RAdd(lambda, eps), RAdd(RAdd(RAdd(l1, eps), RAdd(l2, eps)), RAdd(l3, eps)))

C29_EmptyWindowKeepsWeights ==
    [][\A n \in Nodes : (WindowUpdateOf(n) /\ WindowOf(n) = {}) =>
          /\ SlaWeights(n)' = SlaWeights(n)
          /\ nodes'[n].last_window_update = time]_vars

\* A due update with an empty window on a node whose multipliers are not
\* all zero.
C29_EmptyWindowWithPositiveLambda ==
    /\ WindowUpdateOf(1)
    /\ WindowOf(1) = {}
    /\ RLt(Rat(0, 1), nodes[1].lambda_2)

(***************************************************************************)
(* C30.  In the SLA step a request is taken from its class queue and made  *)
(* the current request only while unspent budget remains: once the budget  *)
(* is exhausted, also by exactly finishing the current request, nothing    *)
(* more is selected, so at the end of a step every current request has     *)
(* received capacity.                                                      *)
(***************************************************************************)
\* The step takes request i from a class queue of node n and makes it the
\* current request.
MadeCurrent(n, i) ==
    /\ pc = "process" /\ ppc = "sla_loop" /\ cur_node = n
    /\ Queued(n, i)
    /\ nodes'[n].current_request = i

\* Request i has received capacity.
Served(i) == requests[i].remaining_demand < requests[i].processing_demand

C30_SelectOnlyWithBudget ==
    /\ [][\A n \in Nodes : \A i \in Ids : MadeCurrent(n, i) => capacity_left' > 0]_vars
    /\ [](AtStepBoundary =>
            \A n \in Nodes : \A i \in Ids : InService(n, i) => Served(i))

\* What the program does instead: the loop condition is tested at the top of
\* the iteration only, so a request is made current in an iteration that
\* was entered with budget, and a current request left unserved at the end
\* of a step was started in that step.
C30_SelectInIterationWithBudget ==
    /\ [][\A n \in Nodes : \A i \in Ids : MadeCurrent(n, i) => capacity_left > 0]_vars
    /\ [](AtStepBoundary =>
            \A n \in Nodes : \A i \in Ids :
                (InService(n, i) /\ ~Served(i) /\ SlaRun) =>
                    /\ time > 0
                    /\ requests[i].start_time = time - config.time_step)

\* A request was made current in the iteration that spent the last of the
\* budget on finishing its predecessor.
C30_SelectedWithoutBudget ==
    /\ pc = "process" /\ ppc = "sla_loop"
    /\ capacity_left = 0
    /\ completed # <<>>
    /\ \E i \in Ids : InService(cur_node, i) /\ ~Served(i)


(***************************************************************************)
(* C31.  The phases of an engine step come in a fixed order.  Every node's  *)
(* link load is reset before any request of the step is link-checked: while *)
(* the batch is routed, a node's link load never exceeds the data of the    *)
(* step's own arrivals already routed to it.  Every arrival of the step is  *)
(* routed before any process_one_step of the step, and no request is routed *)
(* once processing has begun, so an arrival at time t can be served in the  *)
(* step starting at t.  process_one_step is called once on every node in    *)
(* turn, idle nodes included.  The queue lengths (their mean and their      *)
(* maximum over the nodes) are recorded once per step, after the last node  *)
(* was processed, and in the same move the clock advances by time_step.     *)
(***************************************************************************)
\* The data of the current step's arrivals that were routed to node n.
RoutedData(n) ==
    SumOver({i \in Ids : /\ requests[i].arrival_time = time
                         /\ outcome[i] # "new"
                         /\ NodeOf(i) = n},
            [i \in Ids |-> requests[i].data_size])

\* The number of snapshots of the queue lengths taken so far.
Snapshots == Len(metrics.max_queue_lengths)

\* The last snapshot is the mean and the maximum of the nodes' queue
\* lengths as they are after the step.
SnapshotAfterProcessing ==
    /\ Snapshots' = Snapshots + 1
    /\ Len(metrics'.avg_queue_lengths) = Snapshots'
    /\ \A k \in 1..Snapshots :
          /\ metrics'.max_queue_lengths[k] = metrics.max_queue_lengths[k]
          /\ metrics'.avg_queue_lengths[k] = metrics.avg_queue_lengths[k]
    /\ \A n \in Nodes :
          queue_length(nodes'[n]) <= metrics'.max_queue_lengths[Snapshots']
    /\ \E n \in Nodes :
          queue_length(nodes'[n]) = metrics'.max_queue_lengths[Snapshots']
    /\ REq(metrics'.avg_queue_lengths[Snapshots'],
           <<SumSeq([n \in Nodes |-> queue_length(nodes'[n])]), NumNodes>>)

C31_PhaseOrder ==
    /\ [](pc = "route" =>
            /\ cur_node = 0 /\ ppc = "idle"
            /\ \A n \in Nodes : nodes[n].current_link_load <= RoutedData(n))
    /\ [](pc = "process" =>
            /\ new_requests = <<>>
            /\ \A i \in Ids : outcome[i] # "new"
            /\ cur_node \in 1..(NumNodes + 1)
            /\ (ppc = "idle") = (cur_node = NumNodes + 1))
    /\ [](Snapshots * config.time_step = time
          /\ Len(metrics.avg_queue_lengths) = Snapshots)
    /\ [][/\ (pc = "generate" /\ pc' # "done") =>
                /\ pc' = "route"
                /\ \A n \in Nodes : nodes'[n].current_link_load = 0
          /\ pc = "route" =>
                \/ pc' = "route" /\ new_requests # <<>>
                \/ pc' = "process" /\ new_requests = <<>> /\ cur_node' = 1
          /\ (\E i \in Ids : Enqueues(i) \/ outcome[i] # outcome'[i]) =>
                pc = "route"
          /\ (pc = "process" /\ cur_node' # cur_node) =>
                \/ /\ cur_node \in Nodes /\ ppc = "return"
                   /\ cur_node' = cur_node + 1 /\ pc' = "process"
                \/ /\ cur_node = NumNodes + 1 /\ cur_node' = 0
                   /\ pc' = "generate"
          /\ (pc = "process" /\ cur_node' = cur_node) =>
                /\ pc' = "process"
                /\ \A n \in Nodes \ {cur_node} : nodes'[n] = nodes[n]
          /\ (pc = "process" /\ pc' # "process") =>
                /\ cur_node = NumNodes + 1
                /\ SnapshotAfterProcessing
                /\ nodes' = nodes /\ requests' = requests
                /\ time' = time + config.time_step
          /\ time' # time => (pc = "process" /\ pc' = "generate")
          /\ Snapshots' # Snapshots => (pc = "process" /\ pc' = "generate")
       ]_vars

\* A step in which one node is idle and still gets its call, while a request
\* that arrived in this very step has been served by the other node; a
\* snapshot of an earlier step recorded a waiting request.
C31_Witness ==
    /\ pc = "process" /\ cur_node = 2 /\ ppc = "return"
    /\ HeldCount(2) = 0 /\ \A i \in Ids : NodeOf(i) # 2
    /\ \E i \in Ids : /\ requests[i].arrival_time = time
                      /\ NodeOf(i) = 1
                      /\ Served(i)
    /\ \E k \in 1..Snapshots : metrics.max_queue_lengths[k] >= 1

(***************************************************************************)
(* C32.  Exclusive ownership.  In every reachable state a request that was  *)
(* admitted and has not completed occupies exactly one place (one position  *)
(* of one queue, or the in-service slot) of exactly one node, and that node *)
(* is the one get_nearest_fog gives for its source position; a request that *)
(* is completed, dropped, rejected or not yet routed occupies no place.     *)
(* This holds across the preemption swap of the SLA branch.                 *)
(***************************************************************************)
\* All queue positions of node n, one queue after the other.
QueueContents(n) ==
    nodes[n].queue \o nodes[n].emergency_queue \o nodes[n].normal_queue
        \o nodes[n].priority_queue_3 \o nodes[n].priority_queue_2
        \o nodes[n].priority_queue_1 \o nodes[n].dynamic_queue_3
        \o nodes[n].dynamic_queue_2 \o nodes[n].dynamic_queue_1

\* The number of places of node n that hold request i.
Places(n, i) ==
    LET q == QueueContents(n)
    IN  Cardinality({k \in 1..Len(q) : q[k] = i})
            + (IF nodes[n].current_request = i THEN 1 ELSE 0)

C32_ExclusiveOwnership ==
    \A i \in Ids :
        IF outcome[i] = "admitted" /\ ~Completed(i)
        THEN /\ NodeOf(i) = get_nearest_fog(requests[i].source_position)
             /\ \A n \in Nodes :
                   Places(n, i) = (IF n = NodeOf(i) THEN 1 ELSE 0)
        ELSE \A n \in Nodes : Places(n, i) = 0

\* A preemption swap has happened: the new arrival is in service with
\* nothing served yet, and the request it displaced, already partly served,
\* waits in a queue of the same node.
C32_Witness ==
    /\ SlaRun
    /\ \E n \in Nodes : \E i, j \in Ids :
          /\ i # j
          /\ InService(n, i) /\ ~Served(i) /\ requests[i].arrival_time = time
          /\ Queued(n, j) /\ Served(j)

(***************************************************************************)
(* C33.  On an SLA-adaptive node the dual variables lambda_1, lambda_2 and  *)
(* lambda_3 are non-negative in every reachable state, whatever the window  *)
(* updates measured.                                                        *)
(***************************************************************************)
\* The rational x is at least 0.
NonNegative(x) == x[2] > 0 /\ x[1] >= 0

C33_DualsNonNegative ==
    \A n \in Nodes :
        /\ NonNegative(nodes[n].lambda_1)
        /\ NonNegative(nodes[n].lambda_2)
        /\ NonNegative(nodes[n].lambda_3)

\* An update has just run on a non-empty window whose fairness ratio J3 is
\* below J3_max, so that the step from lambda_3 = 0 went below 0 and was
\* clamped, while lambda_2 stayed positive.
C33_Witness ==
    /\ pc = "process" /\ ppc = "return" /\ cur_node = 1
    /\ nodes[1].last_window_update = time
    /\ WindowOf(1) # {}
    /\ config.sla_eta3[1] > 0
    /\ RLt(MeasuredJ3(1), config.sla_J3_max)
    /\ nodes[1].lambda_3 = Rat(0, 1)
    /\ nodes[1].lambda_2[1] > 0

(***************************************************************************)
(* C34.  No request is lost or duplicated.  At every step boundary, for     *)
(* each node, queue_length() equals the number of requests admitted to the  *)
(* node minus the number the node has returned as completed; hence the sum  *)
(* of queue_length() over the nodes equals total_admitted minus             *)
(* total_completed.  Under the SLA policy the in-service request counts.    *)
(***************************************************************************)
\* The requests admitted to node n, and those it has returned as completed.
AdmittedTo(n) == {i \in Ids : outcome[i] = "admitted" /\ NodeOf(i) = n}
ReturnedBy(n) == {i \in AdmittedTo(n) : Completed(i)}

C34_QueueLengthBalance ==
    AtStepBoundary =>
        /\ \A n \in Nodes :
              queue_length(nodes[n])
                  = Cardinality(AdmittedTo(n)) - Cardinality(ReturnedBy(n))
        /\ SumSeq([n \in Nodes |-> queue_length(nodes[n])])
              = metrics.total_admitted - metrics.total_completed

\* A boundary at which an SLA node has returned one request and holds
\* another, partly served, in its in-service slot.
C34_Witness ==
    /\ SlaRun /\ pc = "generate" /\ time > 0
    /\ \E n \in Nodes :
          /\ ReturnedBy(n) # {}
          /\ nodes[n].current_request # None
          /\ queue_length(nodes[n]) = 1

(***************************************************************************)
(* C35.  Drain liveness.  The per-step budget cpu_capacity * dt is positive *)
(* and every request a node holds has work left, so a node is empty exactly *)
(* when its backlog (the remaining demand of what it holds) is 0.  Under    *)
(* each of the four policies every call of process_one_step takes one off   *)
(* the number of steps the backlog still needs, ceil(backlog / budget),     *)
(* until that number is 0, and only the routing of an arrival adds to a     *)
(* backlog.  Hence, k steps after the last arrival at a node, the node      *)
(* needs at most ceil(D / budget) - k further steps, D being the demand of  *)
(* everything it admitted: once no request arrives, every admitted request  *)
(* completes and every queue and the in-service slot become empty after     *)
(* finitely many steps.                                                     *)
(***************************************************************************)
\* The requests node n holds.
HeldSet(n) == Range(QueueContents(n)) \cup ({nodes[n].current_request} \ {None})

\* The remaining demand, in the request table reqs, of the requests of s.
WorkOf(s, reqs) == SumOver(s, [i \in Ids |-> reqs[i].remaining_demand])

\* The backlog of node n and the number of steps it still needs.
Backlog(n) == WorkOf(HeldSet(n), requests)
StepsToDrain(n) == CeilDiv(Backlog(n), Budget(n))

\* The backlog node n had when the call of process_one_step that is about
\* to return was entered: what it holds now and what it completed.
BacklogAtEntry(n) == WorkOf(HeldSet(n) \cup Range(completed), entry_requests)

\* max(0, x)
AtLeastZero(x) == IF x < 0 THEN 0 ELSE x

\* The demand of everything node n admitted, and the number of steps begun
\* since the last of these arrived.
DemandAdmitted(n) ==
    SumOver(AdmittedTo(n), [i \in Ids |-> requests[i].processing_demand])
StepsSinceLastArrival(n) ==
    LET last == CHOOSE a \in {requests[i].arrival_time : i \in AdmittedTo(n)} :
                    \A i \in AdmittedTo(n) : requests[i].arrival_time <= a
    IN  (time - last) \div config.time_step

C35_DrainLiveness ==
    /\ [](\A n \in Nodes :
            /\ Budget(n) > 0
            /\ \A i \in HeldSet(n) : requests[i].remaining_demand > 0
            /\ Backlog(n) = 0 =>
                  /\ HeldCount(n) = 0
                  /\ \A i \in AdmittedTo(n) : Completed(i))
    /\ []((pc = "process" /\ ppc = "return") =>
            StepsToDrain(cur_node)
                = AtLeastZero(CeilDiv(BacklogAtEntry(cur_node), Budget(cur_node)) - 1))
    /\ [](AtStepBoundary =>
            \A n \in Nodes : AdmittedTo(n) # {} =>
                StepsToDrain(n)
                    <= AtLeastZero(CeilDiv(DemandAdmitted(n), Budget(n))
                                       - StepsSinceLastArrival(n)))
    /\ [][\A n \in Nodes :
            Backlog(n)' > Backlog(n) =>
                /\ pc = "route"
                /\ \E i \in Ids : Enqueues(i) /\ i \in AdmittedTo(n)']_vars

\* The run has returned; a node that admitted two requests at once needed
\* three steps to work them off, and holds nothing.
C35_Witness ==
    /\ pc = "done"
    /\ \E n \in Nodes :
          /\ Cardinality(AdmittedTo(n)) = 2
          /\ HeldCount(n) = 0
          /\ \A i \in AdmittedTo(n) : Completed(i)
          /\ \A i, j \in AdmittedTo(n) :
                requests[i].arrival_time = requests[j].arrival_time
          /\ \E i \in AdmittedTo(n) :
                requests[i].completion_time
                    = requests[i].arrival_time + 3 * config.time_step

(***************************************************************************)
(* C36.  Work conservation.  In every call of process_one_step, under every *)
(* policy, the work consumed is min(cpu_capacity * dt, the remaining demand *)
(* of everything the node held when the call was entered); what is left of  *)
(* the budget is the budget minus that work, and a call returns with budget *)
(* left only when the node holds no request any more.                       *)
(***************************************************************************)
\* min(x, y)
Least(x, y) == IF x < y THEN x ELSE y

\* A call of process_one_step is about to return.
AtReturn == pc = "process" /\ ppc = "return"

C36_WorkConservation ==
    AtReturn =>
        /\ WorkDoneInCall
              = Least(Budget(cur_node), BacklogAtEntry(cur_node))
        /\ capacity_left = Budget(cur_node) - WorkDoneInCall
        /\ capacity_left > 0 => HeldCount(cur_node) = 0
        /\ \A i \in Ids \ (HeldSet(cur_node) \cup Range(completed)) :
              requests[i].remaining_demand = entry_requests[i].remaining_demand

\* A call that spent its whole budget while its node still holds a request,
\* after completing another one.
C36_Witness ==
    /\ AtReturn
    /\ completed # <<>>
    /\ HeldCount(cur_node) >= 1
    /\ WorkDoneInCall = Budget(cur_node)
    /\ BacklogAtEntry(cur_node) > Budget(cur_node)

\* A call that emptied its node without using up its budget.
C36_BudgetLeftOver ==
    /\ AtReturn
    /\ Len(completed) = 2
    /\ capacity_left > 0
    /\ WorkDoneInCall = BacklogAtEntry(cur_node)

(***************************************************************************)
(* C37.  A request completed during the step that starts at time now gets   *)
(* completion_time = now + dt, whatever share of the budget was used before *)
(* it finished.  So every completed request has start_time set, with        *)
(* arrival_time <= start_time < completion_time, and its latency is a       *)
(* positive multiple of dt (arrivals are on step boundaries), hence at      *)
(* least dt.                                                                *)
(***************************************************************************)
\* Request i is completed by this step.
Completes(i) == ~Completed(i) /\ requests'[i].completion_time # None

C37_CompletionStamp ==
    /\ [][\A i \in Ids : Completes(i) =>
            /\ pc = "process"
            /\ requests'[i].completion_time = time + config.time_step]_vars
    /\ [](\A i \in Ids : Completed(i) =>
            /\ requests[i].start_time # None
            /\ requests[i].arrival_time <= requests[i].start_time
            /\ requests[i].start_time < requests[i].completion_time
            /\ latency(requests[i]) >= config.time_step
            /\ latency(requests[i]) % config.time_step = 0)

\* Two requests completed in the same call, the second one with what the
\* first left of the budget and with budget to spare; one of them had waited
\* for an earlier step.
C37_Witness ==
    /\ AtReturn
    /\ Len(completed) = 2
    /\ capacity_left > 0
    /\ \A k \in 1..2 : requests[completed[k]].completion_time = time + config.time_step
    /\ \E k \in 1..2 : latency(requests[completed[k]]) >= 2 * config.time_step

(***************************************************************************)
(* C38.  For a request with absolute_deadline = arrival_time +              *)
(* relative_deadline_s and relative_deadline_s > 0, as the generator builds *)
(* them, the urgency term u(t) and the waiting term w(t) of _priority_score *)
(* are equal at every time t, so that the score is                          *)
(* alpha * g + (beta + gamma) * w(t), and it lies in [0, 1].                *)
(***************************************************************************)
\* The times at which the score is examined: before the arrival, during the
\* relative deadline and after it.
ScoreTimes == 0..(2 * SelectHorizon)

\* The deadline fields of request i are those of a generated request.
DeadlineFromArrival(i) ==
    /\ requests[i].relative_deadline_s > 0
    /\ requests[i].absolute_deadline
          = requests[i].arrival_time + requests[i].relative_deadline_s

\* The states at which the scores are examined: a call of process_one_step
\* has just been entered (the weights are those the call selects with), or
\* is about to return (the weights are those the window update left).
ScoresExamined ==
    /\ pc = "process"
    /\ \/ ppc = "return"
       \/ requests = entry_requests /\ completed = <<>>

C38_UrgencyEqualsWaiting ==
    \A i \in Ids : \A t \in ScoreTimes :
        (ScoresExamined /\ DeadlineFromArrival(i) /\ NodeOf(i) \in Nodes) =>
            LET node  == nodes[NodeOf(i)]
                u     == urgency_term(requests[i], t)
                w     == waiting_term(requests[i], t)
                g     == class_term(requests[i])
                score == priority_score(node, requests[i], t)
            IN  /\ REq(u, w)
                /\ REq(score,
                       RAdd(RMul(node.alpha, g),
                            RMul(RAdd(node.beta, node.gamma), w)))
                /\ InUnitInterval(score)

\* A call is about to return on a node with beta # gamma that has selected,
\* by its score, a request whose terms are 0 before its arrival, strictly
\* between 0 and 1 at the current time and 1 after its relative deadline.
C38_Witness ==
    /\ SlaRun /\ AtReturn
    /\ \E n \in Nodes : \E i \in HeldSet(n) :
          /\ ~REq(nodes[n].beta, nodes[n].gamma)
          /\ InService(n, i) /\ requests[i].start_time = time
          /\ DeadlineFromArrival(i)
          /\ RLt(<<0, 1>>, waiting_term(requests[i], time))
          /\ RLt(urgency_term(requests[i], time), <<1, 1>>)
          /\ \E t \in ScoreTimes : t < requests[i].arrival_time
          /\ \E t \in ScoreTimes :
                t > requests[i].absolute_deadline
                /\ waiting_term(requests[i], t) = <<1, 1>>

(***************************************************************************)
(* C39.  Under FIFO, Emergency-First and Static-Priority, enqueue_request   *)
(* and process_one_step never change the state of the SLA policy (alpha,    *)
(* beta, gamma, lambda_1..3, current_request, the completion history, the   *)
(* time of the last window update) nor the queues of the other policies:    *)
(* each policy touches only its own queues, and everything else stays as    *)
(* __init__ left it.                                                        *)
(***************************************************************************)
\* The queues the policy of a run works on.
OwnQueues ==
    IF SlaRun THEN {"dynamic_queue_3", "dynamic_queue_2", "dynamic_queue_1"}
    ELSE IF config.scheduler = "STATIC_PRIORITY"
    THEN {"priority_queue_3", "priority_queue_2", "priority_queue_1"}
    ELSE IF config.scheduler = "EMERGENCY_FIRST"
    THEN {"emergency_queue", "normal_queue"}
    ELSE {"queue"}

\* The state of the SLA policy on a node.
SlaState(node) ==
    <<node.alpha, node.beta, node.gamma,
      node.lambda_1, node.lambda_2, node.lambda_3,
      node.current_request, node.completed_history, node.last_window_update>>

\* The step is part of enqueue_request or of process_one_step.
EnqueueOrProcess == pc \in {"route", "process"}

C39_PolicyFrame ==
    /\ [][(~SlaRun /\ EnqueueOrProcess) =>
            \A n \in Nodes :
                /\ SlaState(nodes'[n]) = SlaState(nodes[n])
                /\ \A f \in QueueFields \ OwnQueues : nodes'[n][f] = nodes[n][f]]_vars
    /\ [](~SlaRun =>
            \A n \in Nodes :
                /\ SlaState(nodes[n]) = SlaState(NewFogNode(config))
                /\ \A f \in QueueFields \ OwnQueues : nodes[n][f] = <<>>)

\* A run of a queue policy that has passed the time of the first window
\* update, with a request completed and another one still queued.
C39_Witness ==
    /\ ~SlaRun
    /\ pc = "done"
    /\ time >= config.sla_window_TW
    /\ metrics.total_completed >= 1
    /\ \E n \in Nodes : \E f \in OwnQueues : nodes[n][f] # <<>>
=============================================================================
